---- MODULE Spec2Model ----
(***************************************************************************)
(* A model of the app-freeze ADB client (src/src/app_freeze/adb).          *)
(*                                                                         *)
(* Text is modelled as a sequence of tokens (words or phrases); the        *)
(* substring test `w in text` of the source is the membership of the       *)
(* phrase w among the tokens, and lower() maps every token to its          *)
(* lower-case form.  None is the distinguished string None; an optional    *)
(* record is a sequence of length 0 or 1.                                  *)
(***************************************************************************)
EXTENDS Integers, Sequences, FiniteSets, TLC

\* ------------------------------------------------------------------ bounds
MaxStderrLen == 3

\* --------------------------------------------------------- program constants
DEFAULT_TIMEOUT == 30
PROP_TIMEOUT == 5
PM_TIMEOUT == 10

None == "<None>"
AdbPath == "adb"

\* ---------------------------------------------------------------- text
\* str.lower() on one token
LowerTok(t) ==
    CASE t = "Device" -> "device"
      [] t = "OFFLINE" -> "offline"
      [] t = "Permission Denied" -> "permission denied"
      [] t = "Insufficient Permissions" -> "insufficient permissions"
      [] t = "Error" -> "error"
      [] t = "Exception" -> "exception"
      [] t = "New State" -> "new state"
      [] t = "Disabled" -> "disabled"
      [] t = "Enabled" -> "enabled"
      [] OTHER -> t

\* str.lower()
Lower(text) == [i \in DOMAIN text |-> LowerTok(text[i])]

\* `w in text`
Contains(text, w) == \E i \in DOMAIN text : text[i] = w

IsSpace(t) == t \in {" ", "\n"}

RECURSIVE LStrip(_)
LStrip(text) ==
    IF text # <<>> /\ IsSpace(Head(text)) THEN LStrip(Tail(text)) ELSE text

RECURSIVE RStrip(_)
RStrip(text) ==
    IF text # <<>> /\ IsSpace(text[Len(text)])
    THEN RStrip(SubSeq(text, 1, Len(text) - 1))
    ELSE text

\* str.strip()
Strip(text) == RStrip(LStrip(text))

\* str(n) for the numbers the model uses
NumStr(n) ==
    CASE n = 0 -> "0" [] n = 1 -> "1" [] n = 2 -> "2" [] n = 5 -> "5"
      [] n = 10 -> "10" [] n = 11 -> "11" [] n = 30 -> "30" [] n = 255 -> "255"
      [] OTHER -> "n"

\* Python truthiness of an optional string
Truthy(s) == s # None /\ s # ""

\* seq[:n]
Take(s, n) == SubSeq(s, 1, IF Len(s) < n THEN Len(s) ELSE n)

\* ---------------------------------------------------------------- errors
\* errors.py: every failure carries its kind and its message (str(e))
TimeoutMsg(cmd, t) == <<"ADB command timed out after ", NumStr(t), "s: ">> \o cmd

CommandMsg(cmd, rc, stderr) ==
    <<"ADB command failed (exit ", NumStr(rc), "): ">>
        \o (IF Strip(stderr) # <<>> THEN Strip(stderr) ELSE cmd)

DeviceNotFoundMsg(what) == <<"Device not found or disconnected: ">> \o what

DisconnectedMsg(dev) ==
    <<"Device disconnected during operation: ", dev, "\n",
      "Please reconnect the device and try again.">>

PermissionMsg(operation, dev) ==
    <<"Permission denied for ">> \o operation \o <<" on device ", dev, "\n",
      "Possible solutions:">>

ErrorKinds ==
    {"Timeout", "CommandFailed", "DeviceNotFound", "DeviceDisconnected",
     "PermissionDenied"}

\* how a _run call may end under `except (ADBCommandError, ADBTimeoutError)`
\* without a failure leaving the handler: "" is success
Absorbed == {"", "CommandFailed", "Timeout"}

Raised(kind, msg) ==
    [raised |-> TRUE, kind |-> kind, msg |-> msg, stdout |-> <<>>, stderr |-> <<>>]

Returned(stdout, stderr) ==
    [raised |-> FALSE, kind |-> "", msg |-> <<>>, stdout |-> stdout, stderr |-> stderr]

\* ---------------------------------------------------------------- _run
\* The external bridge process: what subprocess.run observes.
Proc(timed_out, rc, stdout, stderr) ==
    [timed_out |-> timed_out, returncode |-> rc, stdout |-> stdout, stderr |-> stderr]

\* A mutant of Run: the permission test takes precedence over the device test.
RunPermissionFirst(args, timeout, device_id, proc) ==
    LET cmd == <<AdbPath>> \o (IF Truthy(device_id) THEN <<"-s", device_id>> ELSE <<>>)
                   \o args
        t == IF timeout # 0 THEN timeout ELSE DEFAULT_TIMEOUT
        stderr_lower == Lower(proc.stderr)
    IN  IF proc.timed_out THEN Raised("Timeout", TimeoutMsg(cmd, t))
        ELSE IF proc.returncode # 0 THEN
            IF Contains(stderr_lower, "permission denied")
                  \/ Contains(stderr_lower, "insufficient permissions")
            THEN Raised("PermissionDenied",
                        PermissionMsg(Take(args, 2),
                                      IF Truthy(device_id) THEN device_id ELSE "unknown"))
            ELSE IF Contains(stderr_lower, "device")
                  /\ (Contains(stderr_lower, "not found")
                      \/ Contains(stderr_lower, "offline")
                      \/ Contains(stderr_lower, "disconnected"))
            THEN IF Truthy(device_id)
                 THEN Raised("DeviceDisconnected", DisconnectedMsg(device_id))
                 ELSE Raised("DeviceNotFound", DeviceNotFoundMsg(<<"unknown">>))
            ELSE Raised("CommandFailed", CommandMsg(cmd, proc.returncode, proc.stderr))
        ELSE Returned(proc.stdout, proc.stderr)

\* ADBClient._run: timeout (0 models None) and device_id (None or a string)
Run(args, timeout, device_id, proc) ==
    LET cmd == <<AdbPath>> \o (IF Truthy(device_id) THEN <<"-s", device_id>> ELSE <<>>)
                   \o args
        t == IF timeout # 0 THEN timeout ELSE DEFAULT_TIMEOUT
        stderr_lower == Lower(proc.stderr)
    IN  IF proc.timed_out THEN Raised("Timeout", TimeoutMsg(cmd, t))
        ELSE IF proc.returncode # 0 THEN
            IF Contains(stderr_lower, "device")
                  /\ (Contains(stderr_lower, "not found")
                      \/ Contains(stderr_lower, "offline")
                      \/ Contains(stderr_lower, "disconnected"))
            THEN IF Truthy(device_id)
                 THEN Raised("DeviceDisconnected", DisconnectedMsg(device_id))
                 ELSE Raised("DeviceNotFound", DeviceNotFoundMsg(<<"unknown">>))
            ELSE IF Contains(stderr_lower, "permission denied")
                  \/ Contains(stderr_lower, "insufficient permissions")
            THEN Raised("PermissionDenied",
                        PermissionMsg(Take(args, 2),
                                      IF Truthy(device_id) THEN device_id ELSE "unknown"))
            ELSE Raised("CommandFailed", CommandMsg(cmd, proc.returncode, proc.stderr))
        ELSE Returned(proc.stdout, proc.stderr)

\* ------------------------------------------------------- bounded sequences
RECURSIVE SeqsUpTo(_, _)
SeqsUpTo(S, n) ==
    IF n = 0 THEN {<<>>}
    ELSE LET shorter == SeqsUpTo(S, n - 1)
         IN  shorter \cup {Append(s, x) : s \in {t \in shorter : Len(t) = n - 1}, x \in S}

\* ------------------------------------------------- enable_app / disable_app
\* The result of one enable_app/disable_app call: a (success, error) pair, or
\* the failure that escaped it.  error is <<>> for None, else <<message>>.
Reported(success, error) ==
    [raised |-> FALSE, kind |-> "", msg |-> <<>>, success |-> success, error |-> error]

Escaped(r) ==
    [raised |-> TRUE, kind |-> r.kind, msg |-> r.msg, success |-> FALSE, error |-> <<>>]

\* the bridge subcommand of disable_app and of enable_app
DisableArgs(package_name, user_id) ==
    <<"shell", "pm", "disable-user", "--user", NumStr(user_id), package_name>>

EnableArgs(package_name, user_id) ==
    <<"shell", "pm", "enable", "--user", NumStr(user_id), package_name>>

\* A mutant of DisableApp: "enabled" in the output counts as success too.
DisableAppAnyKeyword(device_id, package_name, user_id, proc) ==
    LET r == Run(DisableArgs(package_name, user_id), PM_TIMEOUT, device_id, proc)
        output == r.stdout \o r.stderr
    IN  IF r.raised
        THEN IF r.kind \in {"CommandFailed", "Timeout"}
             THEN Reported(FALSE, <<r.msg>>)
             ELSE Escaped(r)
        ELSE IF \/ Contains(Lower(output), "disabled") \/ Contains(Lower(output), "enabled")
                \/ Contains(Lower(output), "new state")
             THEN Reported(TRUE, <<>>)
        ELSE IF Contains(Lower(output), "error") \/ Contains(Lower(output), "exception")
             THEN Reported(FALSE, <<Strip(output)>>)
        ELSE Reported(TRUE, <<>>)

\* ADBClient.disable_app
DisableApp(device_id, package_name, user_id, proc) ==
    LET r == Run(DisableArgs(package_name, user_id), PM_TIMEOUT, device_id, proc)
        output == r.stdout \o r.stderr
    IN  IF r.raised
        THEN IF r.kind \in {"CommandFailed", "Timeout"}
             THEN Reported(FALSE, <<r.msg>>)
             ELSE Escaped(r)
        ELSE IF Contains(Lower(output), "disabled") \/ Contains(Lower(output), "new state")
             THEN Reported(TRUE, <<>>)
        ELSE IF Contains(Lower(output), "error") \/ Contains(Lower(output), "exception")
             THEN Reported(FALSE, <<Strip(output)>>)
        ELSE Reported(TRUE, <<>>)

\* ADBClient.enable_app
EnableApp(device_id, package_name, user_id, proc) ==
    LET r == Run(EnableArgs(package_name, user_id), PM_TIMEOUT, device_id, proc)
        output == r.stdout \o r.stderr
    IN  IF r.raised
        THEN IF r.kind \in {"CommandFailed", "Timeout"}
             THEN Reported(FALSE, <<r.msg>>)
             ELSE Escaped(r)
        ELSE IF Contains(Lower(output), "enabled") \/ Contains(Lower(output), "new state")
             THEN Reported(TRUE, <<>>)
        ELSE IF Contains(Lower(output), "error") \/ Contains(Lower(output), "exception")
             THEN Reported(FALSE, <<Strip(output)>>)
        ELSE Reported(TRUE, <<>>)

\* A mutant of SetAppEnabled: every failure of the runner is caught and reported.
SetAppEnabledCatchAll(enable, device_id, package_name, user_id, proc) ==
    LET res == IF enable THEN EnableApp(device_id, package_name, user_id, proc)
               ELSE DisableApp(device_id, package_name, user_id, proc)
    IN  IF res.raised THEN Reported(FALSE, <<res.msg>>) ELSE res

\* A mutant of SetAppEnabled: a Timeout of the runner is not caught.
SetAppEnabledTimeoutEscapes(enable, device_id, package_name, user_id, proc) ==
    LET res == IF enable THEN EnableApp(device_id, package_name, user_id, proc)
               ELSE DisableApp(device_id, package_name, user_id, proc)
        r == Run(IF enable THEN EnableArgs(package_name, user_id)
                 ELSE DisableArgs(package_name, user_id), PM_TIMEOUT, device_id, proc)
    IN  IF r.raised /\ r.kind = "Timeout" THEN Escaped(r) ELSE res

\* action = self.enable_app if enable else self.disable_app
SetAppEnabled(enable, device_id, package_name, user_id, proc) ==
    IF enable THEN EnableApp(device_id, package_name, user_id, proc)
    ELSE DisableApp(device_id, package_name, user_id, proc)

\* ---------------------------------------------------------- parse_users_output
\* A line of `pm list users` output: <<"UserInfo{", id>> for a line matching
\* UserInfo\{(\d+): and any other token sequence for a line that does not.
UserLine(id) == <<"UserInfo{", NumStr(id), ":">>

UserIdOf(line) ==
    CASE line[2] = "0" -> 0 [] line[2] = "10" -> 10 [] line[2] = "11" -> 11 [] OTHER -> 1

IsUserLine(line) == Len(line) >= 3 /\ line[1] = "UserInfo{" /\ line[3] = ":"

RECURSIVE ParseUsersOutput(_)
ParseUsersOutput(lines) ==
    IF lines = <<>> THEN <<>>
    ELSE IF IsUserLine(Head(lines))
         THEN <<UserIdOf(Head(lines))>> \o ParseUsersOutput(Tail(lines))
         ELSE ParseUsersOutput(Tail(lines))

\* ---------------------------------------------------------- models.py
\* DeviceState: the value of each member
DeviceStates ==
    {"device", "offline", "unauthorized", "bootloader", "recovery", "sideload", "unknown"}

\* DeviceInfo; text fields are token sequences, <<>> is the empty string
DeviceInfo(device_id, state, model, manufacturer, android_version, sdk_level, product, transport_id) ==
    [device_id |-> device_id, state |-> state, model |-> model,
     manufacturer |-> manufacturer, android_version |-> android_version,
     sdk_level |-> sdk_level, product |-> product, transport_id |-> transport_id]

\* A mutant of IsReady: a device counts as ready in whatever state it is.
IsReadyAny(d) == TRUE

\* DeviceInfo.is_ready
IsReady(d) == d.state = "device"

\* ---------------------------------------------------------- parse_devices_output
\* A line of `adb devices -l` output is the sequence of its whitespace-separated
\* parts; a part key:value is one token, taken apart by PropKey and PropValue.
StateLower(t) ==
    CASE t = "DEVICE" -> "device" [] t = "Offline" -> "offline" [] OTHER -> t

\* parse_device_state
ParseDeviceState(state_str) ==
    IF StateLower(state_str) \in DeviceStates \ {"unknown"}
    THEN StateLower(state_str)
    ELSE "unknown"

HasColon(part) ==
    part \in {"model:Pixel_5", "model:sdk_gphone", "product:redfin", "transport_id:1",
              "transport_id:2", "usb:1-1"}

PropKey(part) ==
    CASE part \in {"model:Pixel_5", "model:sdk_gphone"} -> "model"
      [] part = "product:redfin" -> "product"
      [] part \in {"transport_id:1", "transport_id:2"} -> "transport_id"
      [] OTHER -> "usb"

PropValue(part) ==
    CASE part = "model:Pixel_5" -> "Pixel_5"
      [] part = "model:sdk_gphone" -> "sdk_gphone"
      [] part = "product:redfin" -> "redfin"
      [] part = "transport_id:1" -> "1"
      [] part = "transport_id:2" -> "2"
      [] OTHER -> "1-1"

\* props[key] after the loop over parts[2:]: the last part with that key wins
RECURSIVE PropsGet(_, _, _)
PropsGet(parts, key, default) ==
    IF parts = <<>> THEN default
    ELSE LET last == parts[Len(parts)]
         IN  IF HasColon(last) /\ PropKey(last) = key
             THEN PropValue(last)
             ELSE PropsGet(SubSeq(parts, 1, Len(parts) - 1), key, default)

IsBanner(line) == Len(line) >= 3 /\ SubSeq(line, 1, 3) = <<"List", "of", "devices">>

\* parse_devices_output: the rows (device_id, state, the parts holding the props)
RECURSIVE ParseDevicesOutput(_)
ParseDevicesOutput(lines) ==
    IF lines = <<>> THEN <<>>
    ELSE LET line == Head(lines)
             rest == ParseDevicesOutput(Tail(lines))
         IN  IF line = <<>> \/ IsBanner(line) \/ Len(line) < 2
             THEN rest
             ELSE <<[device_id |-> line[1], state |-> ParseDeviceState(line[2]),
                     props |-> SubSeq(line, 3, Len(line))]>> \o rest

\* str.replace("_", " ") on a model name; "" stays ""
ModelText(v) ==
    CASE v = "Pixel_5" -> <<"Pixel 5">>
      [] v = "sdk_gphone" -> <<"sdk gphone">>
      [] v = "" -> <<>>
      [] OTHER -> <<v>>

TextOf(v) == IF v = "" THEN <<>> ELSE <<v>>

\* int() of a string of digits
IntOf(v) ==
    CASE v = "0" -> 0 [] v = "1" -> 1 [] v = "2" -> 2 [] v = "33" -> 33 [] OTHER -> 0

\* whether int() accepts the string
IsInt(v) == v \in {"0", "1", "2", "33"}

\* list_devices, lines 143-149: the fresh DeviceInfo of one parsed row
BasicDevice(row) ==
    DeviceInfo(row.device_id, row.state,
               ModelText(PropsGet(row.props, "model", "")),
               <<>>, <<>>, 0,
               TextOf(PropsGet(row.props, "product", "")),
               IntOf(PropsGet(row.props, "transport_id", "0")))

\* A mutant of ListDevices: a cached entry is reused whatever state it records.
RECURSIVE ListDevicesAnyCached(_, _, _)
ListDevicesAnyCached(parsed, use_cache, cache) ==
    IF parsed = <<>> THEN <<>>
    ELSE LET row == Head(parsed)
             cached == IF row.device_id \in DOMAIN cache THEN cache[row.device_id] ELSE <<>>
             device == IF use_cache /\ cached # <<>> THEN cached[1] ELSE BasicDevice(row)
         IN  <<device>> \o ListDevicesAnyCached(Tail(parsed), use_cache, cache)

\* list_devices, lines 134-152, on the parsed rows; cache maps an id to <<>> or <<entry>>
RECURSIVE ListDevices(_, _, _)
ListDevices(parsed, use_cache, cache) ==
    IF parsed = <<>> THEN <<>>
    ELSE LET row == Head(parsed)
             cached == IF row.device_id \in DOMAIN cache THEN cache[row.device_id] ELSE <<>>
             device == IF use_cache /\ cached # <<>> /\ cached[1].state = row.state
                       THEN cached[1]
                       ELSE BasicDevice(row)
         IN  <<device>> \o ListDevices(Tail(parsed), use_cache, cache)

\* [d for d in all_devices if d.is_ready]
ReadyOf(devices) == SelectSeq(devices, IsReady)

\* A mutant of FindDevice: the first listed device is taken, whatever its id.
FindDeviceFirst(devices, device_id) ==
    IF devices = <<>> THEN <<>> ELSE <<Head(devices)>>

\* next((d for d in devices if d.device_id == device_id), None): <<>> or <<d>>
FindDevice(devices, device_id) ==
    LET hits == SelectSeq(devices, LAMBDA d : d.device_id = device_id)
    IN  IF hits = <<>> THEN <<>> ELSE <<Head(hits)>>

\* ', '.join(d.device_id for d in ready_devices)
RECURSIVE JoinIds(_)
JoinIds(devices) ==
    IF devices = <<>> THEN <<>>
    ELSE IF Len(devices) = 1 THEN <<Head(devices).device_id>>
    ELSE <<Head(devices).device_id, ", ">> \o JoinIds(Tail(devices))

\* the outcome of a device-directory operation: a value or a failure
DirReturned(value) == [raised |-> FALSE, kind |-> "", msg |-> <<>>, value |-> <<value>>]
DirRaised(kind, msg) == [raised |-> TRUE, kind |-> kind, msg |-> msg, value |-> <<>>]

\* A mutant of SelectAmong: with several ready devices the first one is taken.
SelectAmongFirst(ready_devices) ==
    IF Len(ready_devices) = 0
    THEN DirRaised("DeviceNotFound", DeviceNotFoundMsg(<<"No ready devices available">>))
    ELSE DirReturned(ready_devices[1])

\* select_device without an id, lines 203-213, on the ready devices
SelectAmong(ready_devices) ==
    IF Len(ready_devices) = 0
    THEN DirRaised("DeviceNotFound", DeviceNotFoundMsg(<<"No ready devices available">>))
    ELSE IF Len(ready_devices) = 1
    THEN DirReturned(ready_devices[1])
    ELSE DirRaised("DeviceNotFound",
                   DeviceNotFoundMsg(<<"Multiple devices available (",
                                       NumStr(Len(ready_devices)),
                                       "). Please specify device ID: ">>
                                     \o JoinIds(ready_devices)))

\* validate_device, lines 177-183, on the listed devices
\* A mutant of ValidateAmong: a listed device is returned in whatever state it is.
ValidateAmongAnyState(devices, device_id) ==
    LET found == FindDevice(devices, device_id)
    IN  IF found = <<>> THEN DirRaised("DeviceNotFound", DeviceNotFoundMsg(<<device_id>>))
        ELSE DirReturned(found[1])

ValidateAmong(devices, device_id) ==
    LET found == FindDevice(devices, device_id)
    IN  IF found = <<>> THEN DirRaised("DeviceNotFound", DeviceNotFoundMsg(<<device_id>>))
        ELSE IF ~IsReady(found[1])
        THEN DirRaised("DeviceNotFound", DeviceNotFoundMsg(<<device_id>>))
        ELSE DirReturned(found[1])

\* A mutant of GetProp: no failure of the command is caught.
GetPropNoCatch(device_id, prop, proc) ==
    LET r == Run(<<"shell", "getprop", prop>>, PROP_TIMEOUT, device_id, proc)
    IN  IF r.raised
        THEN [raised |-> TRUE, kind |-> r.kind, msg |-> r.msg, text |-> <<>>]
        ELSE [raised |-> FALSE, kind |-> "", msg |-> <<>>, text |-> Strip(r.stdout)]

\* _get_prop: the property's text, or the failure that escapes
GetProp(device_id, prop, proc) ==
    LET r == Run(<<"shell", "getprop", prop>>, PROP_TIMEOUT, device_id, proc)
    IN  IF r.raised
        THEN IF r.kind \in {"CommandFailed", "Timeout"}
             THEN [raised |-> FALSE, kind |-> "", msg |-> <<>>, text |-> <<>>]
             ELSE [raised |-> TRUE, kind |-> r.kind, msg |-> r.msg, text |-> <<>>]
        ELSE [raised |-> FALSE, kind |-> "", msg |-> <<>>, text |-> Strip(r.stdout)]

\* int(sdk_str) if sdk_str else 0, ValueError giving 0   (lines 250-253)
SdkLevel(sdk_str) ==
    IF sdk_str = <<>> THEN 0
    ELSE IF Len(sdk_str) = 1 /\ IsInt(sdk_str[1]) THEN IntOf(sdk_str[1])
    ELSE 0

\* the properties get_device_info fetches, in order   (lines 245-248)
PropNames ==
    <<"ro.product.model", "ro.product.manufacturer", "ro.build.version.release",
      "ro.build.version.sdk">>

\* full_info, lines 255-264
FullInfo(device, texts) ==
    DeviceInfo(device.device_id, device.state,
               IF texts[1] # <<>> THEN texts[1] ELSE device.model,
               texts[2], texts[3], SdkLevel(texts[4]),
               device.product, device.transport_id)

\* ---------------------------------------------------------- package names
\* The strings the model orders, in code point order (the order of Python's <).
CodeOrder ==
    <<"Com.b", "com.a", "com.a.b", "com.b",
      "p01", "p02", "p03", "p04", "p05", "p06", "p07", "p08", "p09", "p10">>

Rank(s) == CHOOSE i \in DOMAIN CodeOrder : CodeOrder[i] = s

\* str.lower() on a package name
LowerName(s) == IF s = "Com.b" THEN "com.b" ELSE s

\* str.startswith on package names
StartsWith(s, prefix) == s = prefix \/ (prefix = "com.a" /\ s = "com.a.b")

\* sorted(S) for a set of strings
RECURSIVE SortedSet(_)
SortedSet(S) ==
    IF S = {} THEN <<>>
    ELSE LET m == CHOOSE x \in S : \A y \in S : Rank(x) <= Rank(y)
         IN  <<m>> \o SortedSet(S \ {m})

\* sorted(apps, key=lambda a: a.package_name.lower()): a stable sort
RECURSIVE InsertApp(_, _)
InsertApp(sorted, a) ==
    IF sorted = <<>> THEN <<a>>
    ELSE IF Rank(LowerName(Head(sorted).package_name)) <= Rank(LowerName(a.package_name))
         THEN <<Head(sorted)>> \o InsertApp(Tail(sorted), a)
         ELSE <<a>> \o sorted

RECURSIVE SortedApps(_)
SortedApps(apps) ==
    IF apps = <<>> THEN <<>>
    ELSE InsertApp(SortedApps(SubSeq(apps, 1, Len(apps) - 1)), apps[Len(apps)])

\* ---------------------------------------------------------- parse_packages_output
\* A line of `pm list packages` output: <<"package:", name>>, or other tokens.
PackageLine(name) == <<"package:", name>>

IsPackageLine(line) == line # <<>> /\ line[1] = "package:"

NameOf(line) == IF Len(line) >= 2 THEN line[2] ELSE ""

\* A mutant of ParsePackagesOutput: only the first line is read.
ParsePackagesOutputFirstLine(lines) ==
    IF lines # <<>> /\ IsPackageLine(Head(lines)) THEN <<NameOf(Head(lines))>> ELSE <<>>

RECURSIVE ParsePackagesOutput(_)
ParsePackagesOutput(lines) ==
    IF lines = <<>> THEN <<>>
    ELSE IF IsPackageLine(Head(lines))
         THEN <<NameOf(Head(lines))>> \o ParsePackagesOutput(Tail(lines))
         ELSE ParsePackagesOutput(Tail(lines))

\* ---------------------------------------------------------- parse_package_path
\* A line of `pm path` output: whether it starts with package:, the directory
\* and the file name of the path that follows.
PathLine(prefixed, dir, file) == [prefixed |-> prefixed, dir |-> dir, file |-> file]

\* "base.apk" in line
MentionsBaseApk(line) == line.file \in {"base.apk", "base.apk.bak"}

\* <<>> is None
RECURSIVE ParsePackagePath(_)
ParsePackagePath(lines) ==
    IF lines = <<>> THEN <<>>
    ELSE LET line == Head(lines)
         IN  IF line.prefixed /\ MentionsBaseApk(line) /\ line.file = "base.apk"
             THEN <<line.dir>>
             ELSE ParsePackagePath(Tail(lines))

\* ---------------------------------------------------------- parse_dumpsys_package
\* A line of `dumpsys package` output, by the pattern it matches:
\*   "user":    User <user>: ... enabled=<num>
\*   "version": versionCode=<num>
\*   "label":   nonLocalizedLabel=<text> or labelRes=<text>
DumpLine(kind, user, num, text) == [kind |-> kind, user |-> user, num |-> num, text |-> text]

StartsWith0x(text) == text \in {"0x7f0a"}

\* str.strip('"')
Unquote(text) == IF text = "\"Maps\"" THEN "Maps" ELSE text

NoMetadata == [enabled |-> TRUE, version_code |-> 0, app_label |-> ""]

RECURSIVE ParseDumpsysFrom(_, _, _)
ParseDumpsysFrom(lines, user_id, result) ==
    IF lines = <<>> THEN result
    ELSE LET line == Head(lines)
             next ==
                 CASE line.kind = "user" /\ line.user = user_id ->
                          [result EXCEPT !.enabled = (line.num \in {0, 1})]
                   [] line.kind = "version" ->
                          [result EXCEPT !.version_code = line.num]
                   [] line.kind = "label" /\ result.app_label = ""
                         /\ line.text # "" /\ ~StartsWith0x(line.text) ->
                          [result EXCEPT !.app_label = Unquote(line.text)]
                   [] OTHER -> result
         IN  ParseDumpsysFrom(Tail(lines), user_id, next)

ParseDumpsysPackage(lines, user_id) == ParseDumpsysFrom(lines, user_id, NoMetadata)

\* ---------------------------------------------------------- parse_du_output
\* A whitespace-separated part of `du -sh` output: the longest prefix of digits
\* and dots, the unit letter that follows it ("" if none of K, M, G, T does).
DuPart(num, unit) == [num |-> num, unit |-> unit]

\* whether float() accepts the numeral
IsFloat(num) == num \in {"25", "512", "1.5"}

\* 1000 * float(num)
Thousandths(num) ==
    CASE num = "25" -> 25000 [] num = "512" -> 512000 [] num = "1.5" -> 1500 [] OTHER -> 0

\* the size in hundredths of a MB: round(value * multiplier, 2)
Hundredths(num, unit) ==
    LET v == Thousandths(num)
    IN  CASE unit = "M" -> v \div 10
          [] unit = "G" -> (v * 1024) \div 10
          [] unit = "T" -> (v * 1024 * 1024) \div 10
          [] OTHER -> (v + 5000) \div 10000

\* lines: the lines of the stripped output, each the sequence of its parts
ParseDuOutput(lines) ==
    IF lines = <<>> \/ Head(lines) = <<>> THEN [raised |-> FALSE, size |-> 0]
    ELSE LET part == Head(lines)[1]
         IN  IF part.num = "" THEN [raised |-> FALSE, size |-> 0]
             ELSE IF ~IsFloat(part.num) THEN [raised |-> TRUE, size |-> 0]
             ELSE [raised |-> FALSE, size |-> Hundredths(part.num, part.unit)]

\* ---------------------------------------------------------- get_app_info
\* AppInfo; size_mb is in hundredths of a MB
AppInfo(package_name, is_system, is_enabled, size_mb, version_code, app_label) ==
    [package_name |-> package_name, is_system |-> is_system, is_enabled |-> is_enabled,
     size_mb |-> size_mb, version_code |-> version_code, app_label |-> app_label]

\* how a _run call ended: "" or the kind of the failure it raised
RunKind(r) == IF r.raised THEN r.kind ELSE ""

\* The outcome of a helper: the value it returned or the failure that escaped
\* it, and how each _run call it made ended.
Gave(value, runs) ==
    [raised |-> FALSE, kind |-> "", msg |-> <<>>, value |-> value, runs |-> runs]

Threw(kind, msg, runs) ==
    [raised |-> TRUE, kind |-> kind, msg |-> msg, value |-> <<>>, runs |-> runs]

\* A mutant of IsSystemApp: every failure of the command gives False.
IsSystemAppCatchAll(device_id, package_name, proc) ==
    LET r == Run(<<"shell", "pm", "list", "packages", "-s", package_name>>,
                 PROP_TIMEOUT, device_id, proc)
    IN  IF r.raised THEN Gave(<<FALSE>>, <<RunKind(r)>>)
        ELSE Gave(<<\E i \in DOMAIN r.stdout :
                       /\ IsPackageLine(r.stdout[i])
                       /\ StartsWith(NameOf(r.stdout[i]), package_name)>>,
                  <<"">>)

\* _is_system_app: value is <<is_system>>
IsSystemApp(device_id, package_name, proc) ==
    LET r == Run(<<"shell", "pm", "list", "packages", "-s", package_name>>,
                 PROP_TIMEOUT, device_id, proc)
    IN  IF r.raised
        THEN IF r.kind \in {"CommandFailed", "Timeout"}
             THEN Gave(<<FALSE>>, <<RunKind(r)>>)
             ELSE Threw(r.kind, r.msg, <<RunKind(r)>>)
        ELSE Gave(<<\E i \in DOMAIN r.stdout :
                       /\ IsPackageLine(r.stdout[i])
                       /\ StartsWith(NameOf(r.stdout[i]), package_name)>>,
                  <<"">>)

\* A mutant of GetAppSize: a PermissionDenied of its commands is not caught.
GetAppSizePermissionEscapes(device_id, package_name, path_proc, du_proc) ==
    LET p == Run(<<"shell", "pm", "path", package_name>>, PROP_TIMEOUT, device_id, path_proc)
        caught == {"CommandFailed", "Timeout"}
    IN  IF p.raised
        THEN IF p.kind \in caught THEN Gave(<<0>>, <<RunKind(p)>>)
             ELSE Threw(p.kind, p.msg, <<RunKind(p)>>)
        ELSE LET app_dir == ParsePackagePath(p.stdout)
             IN  IF app_dir = <<>> \/ app_dir[1] = "" THEN Gave(<<0>>, <<"">>)
                 ELSE LET s == Run(<<"shell", "du", "-sh", app_dir[1]>>, PM_TIMEOUT,
                                   device_id, du_proc)
                          size == ParseDuOutput(s.stdout)
                      IN  IF s.raised
                          THEN IF s.kind \in caught THEN Gave(<<0>>, <<"", RunKind(s)>>)
                               ELSE Threw(s.kind, s.msg, <<"", RunKind(s)>>)
                          ELSE IF size.raised THEN Threw("ValueError", <<>>, <<"", "">>)
                          ELSE Gave(<<size.size>>, <<"", "">>)

\* A mutant of GetAppSize: every failure of its commands gives 0.0.
GetAppSizeCatchAll(device_id, package_name, path_proc, du_proc) ==
    LET p == Run(<<"shell", "pm", "path", package_name>>, PROP_TIMEOUT, device_id, path_proc)
        caught == ErrorKinds
    IN  IF p.raised
        THEN IF p.kind \in caught THEN Gave(<<0>>, <<RunKind(p)>>)
             ELSE Threw(p.kind, p.msg, <<RunKind(p)>>)
        ELSE LET app_dir == ParsePackagePath(p.stdout)
             IN  IF app_dir = <<>> \/ app_dir[1] = "" THEN Gave(<<0>>, <<"">>)
                 ELSE LET s == Run(<<"shell", "du", "-sh", app_dir[1]>>, PM_TIMEOUT,
                                   device_id, du_proc)
                          size == ParseDuOutput(s.stdout)
                      IN  IF s.raised
                          THEN IF s.kind \in caught THEN Gave(<<0>>, <<"", RunKind(s)>>)
                               ELSE Threw(s.kind, s.msg, <<"", RunKind(s)>>)
                          ELSE IF size.raised THEN Threw("ValueError", <<>>, <<"", "">>)
                          ELSE Gave(<<size.size>>, <<"", "">>)

\* _get_app_size: value is <<size_mb>>
GetAppSize(device_id, package_name, path_proc, du_proc) ==
    LET p == Run(<<"shell", "pm", "path", package_name>>, PROP_TIMEOUT, device_id, path_proc)
        caught == {"CommandFailed", "Timeout", "PermissionDenied"}
    IN  IF p.raised
        THEN IF p.kind \in caught THEN Gave(<<0>>, <<RunKind(p)>>)
             ELSE Threw(p.kind, p.msg, <<RunKind(p)>>)
        ELSE LET app_dir == ParsePackagePath(p.stdout)
             IN  IF app_dir = <<>> \/ app_dir[1] = "" THEN Gave(<<0>>, <<"">>)
                 ELSE LET s == Run(<<"shell", "du", "-sh", app_dir[1]>>, PM_TIMEOUT,
                                   device_id, du_proc)
                          size == ParseDuOutput(s.stdout)
                      IN  IF s.raised
                          THEN IF s.kind \in caught THEN Gave(<<0>>, <<"", RunKind(s)>>)
                               ELSE Threw(s.kind, s.msg, <<"", RunKind(s)>>)
                          ELSE IF size.raised THEN Threw("ValueError", <<>>, <<"", "">>)
                          ELSE Gave(<<size.size>>, <<"", "">>)

\* get_app_info: value is <<AppInfo>>.  procs holds the bridge's answer to each
\* of the subcommands the call may issue.
GetAppInfo(device_id, package_name, user_id, fetch_size, procs) ==
    LET sys == IsSystemApp(device_id, package_name, procs.sys)
        d == Run(<<"shell", "dumpsys", "package", package_name>>, PM_TIMEOUT,
                 device_id, procs.dump)
        metadata == ParseDumpsysPackage(d.stdout, user_id)
        size == IF fetch_size THEN GetAppSize(device_id, package_name, procs.path, procs.du)
                ELSE Gave(<<0>>, <<>>)
    IN  IF sys.raised THEN sys
        ELSE IF d.raised THEN Threw(d.kind, d.msg, sys.runs \o <<RunKind(d)>>)
        ELSE IF size.raised
             THEN Threw(size.kind, size.msg, sys.runs \o <<"">> \o size.runs)
        ELSE Gave(<<AppInfo(package_name, sys.value[1], metadata.enabled, size.value[1],
                            metadata.version_code, metadata.app_label)>>,
                  sys.runs \o <<"">> \o size.runs)

\* A mutant of FetchApp: a failed query yields a placeholder entry.
FetchAppPlaceholder(device_id, package, user_id, fetch_sizes, procs) ==
    LET g == GetAppInfo(device_id, package, user_id, fetch_sizes, procs)
    IN  IF g.raised
        THEN Gave(<<AppInfo(package, FALSE, TRUE, 0, 0, "")>>, g.runs)
        ELSE g

\* fetch_app of list_apps, lines 411-416: value is <<AppInfo>> or <<>> (None)
FetchApp(device_id, package, user_id, fetch_sizes, procs) ==
    LET g == GetAppInfo(device_id, package, user_id, fetch_sizes, procs)
    IN  IF g.raised /\ g.kind \in {"CommandFailed", "Timeout"}
        THEN Gave(<<>>, g.runs)
        ELSE g

\* ====================================================================
\* State
\* ====================================================================
VARIABLES
    runIn,          \* the arguments of the last _run call: <<>> or <<record>>
    runOut,         \* its outcome: <<>> or <<outcome>>
    bpc,            \* enable_disable_apps / enable_app / disable_app: position
    bArgs,          \* the call's arguments: <<>> or <<record>>
    user_ids,       \* enable_disable_apps: the profile list being targeted
    bi,             \* index of the package being processed
    bj,             \* index of the profile being processed
    all_success,    \* enable_disable_apps: local all_success
    last_error,     \* enable_disable_apps: local last_error (<<>> is None)
    results,        \* enable_disable_apps: the results dict
    calls,          \* every enable_app/disable_app call made, in order, with its result
    bExc,           \* the failure that escaped the call: <<>> or <<failure>>
    dpc,            \* device directory: position of the operation in progress
    dOp,            \* the operation in progress or last made: <<>> or <<record>>
    device_cache,   \* DeviceCache._cache: device id -> <<>> or <<DeviceInfo>>
    dFrame,         \* get_device_info: the listed device and the properties fetched so far
                    \* (kept after the call returned a full record)
    dCmds,          \* the bridge subcommands issued by that operation, in order
    dRuns,          \* how the _run call of each of them ended: "" or the failure's kind
    dListed,        \* <<rows>>: the rows of the device listing that operation observed
                    \* (for get_device_info, the rows of the queried id); <<>> if none
    dRet,           \* its outcome: <<>> (in progress) or <<outcome>>
    known,          \* device id -> the record the last get_device_info of a Ready
                    \* device returned since the id was last invalidated, or <<>>
    lpc,            \* list_packages / get_app_info / list_apps: position
    lOp,            \* the call made: <<>> or <<record>>; for a call of _is_system_app or
                    \* _get_app_size, answers holds what the bridge answered to it
    lCmds,          \* the listing subcommands issued by list_packages and how each ended
    pkg_set,        \* list_packages: the local set packages
    pkg_list,       \* the sorted package list
    fut,            \* list_apps: package index -> the state of its future: status and,
                    \* once finished, how its query ended
    apps,           \* list_apps: local apps
    completed,      \* list_apps: local completed
    cbLog,          \* the progress_callback invocations, in order
    lRet,           \* the outcome of the call: <<>> or <<outcome>>
    view,           \* UIState.view
    selected_device,    \* UIState.selected_device: <<>> (None) or <<device id>>
    selected_packages,  \* UIState.selected_packages
    pending_action,     \* UIState.pending_action: None, "DISABLE" or "ENABLE"
    execution_results,  \* UIState.execution_results
    execution_progress, \* UIState.execution_progress
    execution_total,    \* UIState.execution_total
    execution_current,  \* UIState.execution_current
    xThreads,       \* the threads started by confirm_yes to run _execute_action: position,
                    \* locals, and the enable/disable commands each has issued
    reports,        \* the reports written by _write_report, in order
    exited,         \* event.app.exit() was called
    state_apps,     \* UIState.apps
    app_cursor,     \* UIState.app_cursor
    filter_text,    \* UIState.filter_text
    filter_mode,    \* UIState.filter_mode
    filter_visible, \* AppFreezeUI.filter_visible
    device_enabled  \* the device: package -> whether it is enabled for profile 0

runVars == <<runIn, runOut>>
bulkVars == <<bpc, bArgs, user_ids, bi, bj, all_success, last_error, results, calls, bExc>>
dirVars == <<dpc, dOp, device_cache, dFrame, dCmds, dRuns, dListed, dRet, known>>
listVars == <<lpc, lOp, lCmds, pkg_set, pkg_list, fut, apps, completed, cbLog, lRet>>
uiState == <<view, selected_device, selected_packages, pending_action, execution_results, execution_progress, execution_total, execution_current>>
navVars == <<state_apps, app_cursor, filter_text, filter_mode, filter_visible>>
uiVars == <<uiState, navVars, xThreads, reports, exited, device_enabled>>
vars == <<runVars, bulkVars, dirVars, listVars, uiVars>>
notRun == <<bulkVars, dirVars, listVars, uiVars>>
notBulk == <<runVars, dirVars, listVars, uiVars>>
notDir == <<runVars, bulkVars, listVars, uiVars>>
notList == <<runVars, bulkVars, dirVars, uiVars>>
notUi == <<runVars, bulkVars, dirVars, listVars>>

EmptyDict == [x \in {} |-> <<>>]

RunIdle == runIn = <<>> /\ runOut = <<>>

\* the apps the front end lists
UiApps == {"com.a", "com.b"}

\* UIState() and AppFreezeUI.__init__
UiIdle ==
    /\ view = "LOADING" /\ selected_device = <<>> /\ selected_packages = {}
    /\ pending_action = None /\ execution_results = <<>> /\ execution_progress = 0
    /\ execution_total = 0 /\ execution_current = ""
    /\ xThreads = <<>> /\ reports = <<>> /\ exited = FALSE
    /\ state_apps = <<>> /\ app_cursor = 0 /\ filter_text = "" /\ filter_mode = "ALL"
    /\ filter_visible = FALSE
    /\ device_enabled = [p \in UiApps |-> TRUE]

BulkIdle ==
    /\ bpc = "idle" /\ bArgs = <<>> /\ user_ids = <<>> /\ bi = 1 /\ bj = 1
    /\ all_success = TRUE /\ last_error = <<>> /\ results = EmptyDict
    /\ calls = <<>> /\ bExc = <<>>

QueryIds == {"emu-5554", "R58M"}
NoFrame == [device |-> <<>>, texts |-> <<>>]

DirIdle ==
    /\ dpc = "idle" /\ dOp = <<>> /\ device_cache = [id \in QueryIds |-> <<>>]
    /\ dFrame = NoFrame /\ dCmds = <<>> /\ dRuns = <<>> /\ dListed = <<>> /\ dRet = <<>>
    /\ known = [id \in QueryIds |-> <<>>]

ListIdle ==
    /\ lpc = "idle" /\ lOp = <<>> /\ lCmds = <<>> /\ pkg_set = {} /\ pkg_list = <<>>
    /\ fut = <<>> /\ apps = <<>> /\ completed = 0 /\ cbLog = <<>> /\ lRet = <<>>

\* ====================================================================
\* The process runner on its own
\* ====================================================================
StderrTokens ==
    {"error:", "Device", "not found", "OFFLINE", "disconnected",
     "Permission Denied", "insufficient permissions", "\n"}

RunArgs == {<<"shell", "getprop", "ro.product.model">>, <<"kill-server">>}

RunCall ==
    /\ runIn = <<>>
    /\ \E args \in RunArgs, timeout \in {0, PROP_TIMEOUT}, device_id \in {None, "", "emu-5554"},
          timed_out \in BOOLEAN, rc \in {0, 1}, stdout \in {<<>>, <<" ", "out", "\n">>},
          stderr \in SeqsUpTo(StderrTokens, MaxStderrLen) :
            LET proc == Proc(timed_out, rc, stdout, stderr)
            IN  /\ runIn' = <<[args |-> args, timeout |-> timeout,
                               device_id |-> device_id, proc |-> proc]>>
                /\ runOut' = <<Run(args, timeout, device_id, proc)>>
    /\ UNCHANGED notRun

InitRun == RunIdle /\ BulkIdle /\ DirIdle /\ ListIdle /\ UiIdle
NextRun == RunCall
SpecRun == InitRun /\ [][NextRun]_vars

\* --------------------------------------------------------------------
\* Properties of _run
\* --------------------------------------------------------------------
StderrMentions(w) ==
    \E i \in DOMAIN runIn[1].proc.stderr : LowerTok(runIn[1].proc.stderr[i]) = w

DeviceTrouble ==
    StderrMentions("device")
        /\ (StderrMentions("not found") \/ StderrMentions("offline")
            \/ StderrMentions("disconnected"))

PermissionTrouble ==
    StderrMentions("permission denied") \/ StderrMentions("insufficient permissions")

\* C9: when the bridge process exits (no timeout), a non-zero exit raises exactly
\* the failure chosen by the precedence device trouble (DeviceDisconnected with a
\* targeted device, else DeviceNotFound) > permission trouble (PermissionDenied) >
\* CommandFailed, judged on the lower-cased stderr; a zero exit raises nothing and
\* returns stdout and stderr as the process gave them, whatever stderr holds.
C9_ExitClassification ==
    (runOut # <<>> /\ ~runIn[1].proc.timed_out) =>
        LET proc == runIn[1].proc
            out == runOut[1]
        IN  /\ proc.returncode = 0 =>
                  /\ ~out.raised
                  /\ out.stdout = proc.stdout
                  /\ out.stderr = proc.stderr
            /\ proc.returncode # 0 =>
                  /\ out.raised
                  /\ out.kind =
                        IF DeviceTrouble
                        THEN IF Truthy(runIn[1].device_id)
                             THEN "DeviceDisconnected" ELSE "DeviceNotFound"
                        ELSE IF PermissionTrouble THEN "PermissionDenied"
                        ELSE "CommandFailed"

\* C9 witness: a non-zero exit of a command aimed at a device whose stderr shows
\* both device trouble and permission trouble, classified DeviceDisconnected.
C9_Witness ==
    /\ runOut # <<>>
    /\ ~runIn[1].proc.timed_out
    /\ runIn[1].proc.returncode # 0
    /\ Truthy(runIn[1].device_id)
    /\ DeviceTrouble /\ PermissionTrouble
    /\ runOut[1].kind = "DeviceDisconnected"

\* ====================================================================
\* enable_disable_apps
\* ====================================================================
MaxPackages == 2

PackageNames == {"com.a", "com.b"}
UserIds == {0, 10}
\* the profile lists a caller may supply: each profile at most once, in any order
UserLists ==
    {u \in SeqsUpTo(UserIds, Cardinality(UserIds)) :
        \A i, j \in DOMAIN u : i # j => u[i] # u[j]}
BulkDevices == {"emu-5554", ""}

\* What the bridge may answer to an enable/disable command.
BulkProcs ==
    { Proc(FALSE, 0, <<"Package", "new state", "\n">>, <<>>),
      Proc(FALSE, 0, <<>>, <<>>),
      Proc(FALSE, 0, <<"Error", "\n">>, <<"Exception">>),
      Proc(TRUE, 0, <<>>, <<>>),
      Proc(FALSE, 1, <<>>, <<"Failure", "\n">>),
      Proc(FALSE, 1, <<>>, <<"error:", "Device", "OFFLINE">>),
      Proc(FALSE, 1, <<>>, <<"Permission Denied">>) }

\* Answers with exit status 0 whose output mixes the keywords enable_app and
\* disable_app look for.
KeywordProcs ==
    { Proc(FALSE, 0, <<" ", "Enabled", "Error", "\n">>, <<>>),
      Proc(FALSE, 0, <<"Exception", "\n">>, <<"Disabled">>),
      Proc(FALSE, 0, <<"Error">>, <<"New State", "\n">>),
      Proc(FALSE, 0, <<"Failure", "\n">>, <<>>) }

\* What the bridge may answer to `pm list users`.
UsersProcs ==
    { Proc(FALSE, 0, <<<<"Users:">>, UserLine(0), UserLine(10)>>, <<>>),
      Proc(FALSE, 0, <<UserLine(10)>>, <<>>),
      Proc(FALSE, 0, <<>>, <<>>),
      Proc(FALSE, 1, <<>>, <<"error:", "Device", "not found">>),
      Proc(TRUE, 0, <<>>, <<>>) }

Failure(r) == [kind |-> r.kind, msg |-> r.msg]

\* enable_disable_apps is entered: lines 567-573
BulkCall ==
    /\ bpc = "idle"
    /\ \E device_id \in {"emu-5554"}, packages \in SeqsUpTo(PackageNames, MaxPackages),
          enable \in BOOLEAN,
          uids \in {<<>>} \cup {<<u>> : u \in UserLists} :
            /\ bArgs' = <<[device_id |-> device_id, packages |-> packages,
                          enable |-> enable, user_ids |-> uids]>>
            /\ IF uids = <<>>
               THEN bpc' = "list_users" /\ user_ids' = <<>>
               ELSE bpc' = "loop" /\ user_ids' = uids[1]
    /\ UNCHANGED <<bi, bj, all_success, last_error, results, calls, bExc>>
    /\ UNCHANGED notBulk

\* user_ids = self.list_users(device_id); if not user_ids: user_ids = [0]
BulkListUsers ==
    /\ bpc = "list_users"
    /\ \E proc \in UsersProcs :
          LET r == Run(<<"shell", "pm", "list", "users">>, 0, bArgs[1].device_id, proc)
              listed == ParseUsersOutput(r.stdout)
          IN  IF r.raised
              THEN bpc' = "raised" /\ bExc' = <<Failure(r)>> /\ UNCHANGED user_ids
              ELSE /\ bpc' = "loop"
                   /\ user_ids' = IF listed = <<>> THEN <<0>> ELSE listed
                   /\ UNCHANGED bExc
    /\ UNCHANGED <<bArgs, bi, bj, all_success, last_error, results, calls>>
    /\ UNCHANGED notBulk

\* A mutant of ActionArgs: after profile 0 the inverse command is issued.
ActionArgsUndoLater(enable, package, user_id) ==
    IF enable = (user_id = 0) THEN EnableArgs(package, user_id)
    ELSE DisableArgs(package, user_id)

\* the bridge subcommand issued by `action` (enable_app or disable_app, line 573)
ActionArgs(enable, package, user_id) ==
    IF enable THEN EnableArgs(package, user_id) ELSE DisableArgs(package, user_id)

\* The record of one enable_app/disable_app call: its arguments, the bridge
\* subcommand it issued (args), what the process runner gave for it (run) and
\* what the call gave (res).
CallRecord(enable, device_id, package, user_id, proc) ==
    LET r == Run(ActionArgs(enable, package, user_id), PM_TIMEOUT, device_id, proc)
    IN  [package |-> package, user_id |-> user_id, enable |-> enable,
         args |-> ActionArgs(enable, package, user_id),
         run |-> [raised |-> r.raised, kind |-> r.kind, msg |-> r.msg],
         res |-> SetAppEnabled(enable, device_id, package, user_id, proc)]

\* A mutant of Aggregate: the first failure message is kept instead of the last.
AggregateFirstError(acc, res) ==
    IF res.success THEN acc
    ELSE [all_success |-> FALSE,
          last_error |-> IF acc.all_success THEN res.error ELSE acc.last_error]

\* if not success: all_success = False; last_error = error   (lines 582-584)
Aggregate(acc, res) ==
    IF res.success THEN acc
    ELSE [all_success |-> FALSE, last_error |-> res.error]

\* A mutant of NextProfile: a failed profile ends the package's inner loop.
NextProfileBreakOnFailure(j, n, res) == IF res.success THEN j + 1 ELSE n + 1

\* for user_id in user_ids: the loop goes on to the next profile   (line 580)
NextProfile(j, n, res) == j + 1

\* One iteration of the inner loop: lines 580-584
BulkCommand ==
    /\ bpc = "loop"
    /\ bi <= Len(bArgs[1].packages)
    /\ bj <= Len(user_ids)
    /\ \E proc \in BulkProcs :
          LET package == bArgs[1].packages[bi]
              user_id == user_ids[bj]
              res == SetAppEnabled(bArgs[1].enable, bArgs[1].device_id, package, user_id, proc)
              acc == Aggregate([all_success |-> all_success, last_error |-> last_error], res)
          IN  /\ calls' = Append(calls, CallRecord(bArgs[1].enable, bArgs[1].device_id,
                                                   package, user_id, proc))
              /\ IF res.raised
                 THEN /\ bpc' = "raised" /\ bExc' = <<Failure(res)>>
                      /\ UNCHANGED <<bj, all_success, last_error>>
                 ELSE /\ bj' = NextProfile(bj, Len(user_ids), res)
                      /\ all_success' = acc.all_success
                      /\ last_error' = acc.last_error
                      /\ UNCHANGED <<bpc, bExc>>
    /\ UNCHANGED <<bArgs, user_ids, bi, results>>
    /\ UNCHANGED notBulk

\* The inner loop is over: results[package] = (all_success, last_error), line 586
BulkStore ==
    /\ bpc = "loop"
    /\ bi <= Len(bArgs[1].packages)
    /\ bj > Len(user_ids)
    /\ results' = (bArgs[1].packages[bi] :> <<all_success, last_error>>) @@ results
    /\ bi' = bi + 1
    /\ bj' = 1
    /\ all_success' = TRUE
    /\ last_error' = <<>>
    /\ UNCHANGED <<bpc, bArgs, user_ids, calls, bExc>>
    /\ UNCHANGED notBulk

\* return results, line 588
BulkReturn ==
    /\ bpc = "loop"
    /\ bi > Len(bArgs[1].packages)
    /\ bpc' = "returned"
    /\ UNCHANGED <<bArgs, user_ids, bi, bj, all_success, last_error, results, calls, bExc>>
    /\ UNCHANGED notBulk

\* enable_app or disable_app called on its own; the record of the call also
\* holds the output of its command (output = stdout + stderr)
SetAppEnabledCall ==
    /\ bpc = "idle"
    /\ \E device_id \in BulkDevices, package \in PackageNames, user_id \in UserIds,
          enable \in BOOLEAN, proc \in BulkProcs \cup KeywordProcs :
            LET res == SetAppEnabled(enable, device_id, package, user_id, proc)
            IN  /\ calls' = <<[output |-> proc.stdout \o proc.stderr]
                                  @@ CallRecord(enable, device_id, package, user_id, proc)>>
                /\ bpc' = IF res.raised THEN "single_raised" ELSE "single_returned"
                /\ bExc' = IF res.raised THEN <<Failure(res)>> ELSE <<>>
    /\ UNCHANGED <<bArgs, user_ids, bi, bj, all_success, last_error, results>>
    /\ UNCHANGED notBulk

InitBulk == RunIdle /\ BulkIdle /\ DirIdle /\ ListIdle /\ UiIdle
NextBulk ==
    \/ BulkCall
    \/ BulkListUsers
    \/ BulkCommand
    \/ BulkStore
    \/ BulkReturn
    \/ SetAppEnabledCall
SpecBulk == InitBulk /\ [][NextBulk]_vars

\* --------------------------------------------------------------------
\* Properties of enable_disable_apps, enable_app and disable_app
\* --------------------------------------------------------------------
BulkPackages == bArgs[1].packages
NumProfiles == Len(user_ids)
InBulk == bpc \in {"loop", "returned", "raised"}

SeqRange(s) == {s[i] : i \in DOMAIN s}
MaxOf(S) == CHOOSE x \in S : \A y \in S : y <= x

\* the position at which package p is processed last
LastIndexOf(p) == MaxOf({i \in DOMAIN BulkPackages : BulkPackages[i] = p})
\* the calls made while the package at position i was processed
CallsAt(i) == {k \in DOMAIN calls : (i - 1) * NumProfiles < k /\ k <= i * NumProfiles}
FailedAt(i) == {k \in CallsAt(i) : ~calls[k].res.success}

\* C1: when enable_disable_apps has returned, every package of the input is
\* reported with success = (enable_app/disable_app succeeded on every targeted
\* profile) and with error = the message of the last failing profile in
\* profile-list order, None when no profile failed; every call made for the
\* package carries the requested action (an earlier success is not undone).
\* A package given several times is reported as its last processing went.
C1_AggregateOverProfiles ==
    bpc = "returned" =>
        \A p \in SeqRange(BulkPackages) :
            LET i == LastIndexOf(p)
                failed == FailedAt(i)
            IN  /\ p \in DOMAIN results
                /\ \A k \in CallsAt(i) :
                      calls[k].package = p /\ calls[k].enable = bArgs[1].enable
                /\ results[p][1] = (failed = {})
                /\ results[p][2] = IF failed = {} THEN <<>> ELSE calls[MaxOf(failed)].res.error

\* C1 witness: a returned call in which a package failed on two profiles with
\* different messages, and one in which profile 0 succeeded and profile 10 failed.
C1_Witness ==
    /\ bpc = "returned"
    /\ \E p \in SeqRange(BulkPackages) :
          \E k1, k2 \in FailedAt(LastIndexOf(p)) :
              /\ k1 < k2
              /\ calls[k1].res.error # calls[k2].res.error
              /\ results[p] = <<FALSE, calls[k2].res.error>>

\* C2: the enable/disable calls are made in package-major input order, one per
\* (package position, profile position) pair: the k-th call is for package
\* ((k-1) div m)+1 and profile ((k-1) mod m)+1, the calls made so far are exactly
\* those before the current position, and on return all n*m calls were made.
C2_PackageMajorOrder ==
    InBulk /\ bpc # "raised" =>
        /\ \A k \in DOMAIN calls :
              /\ calls[k].package = BulkPackages[((k - 1) \div NumProfiles) + 1]
              /\ calls[k].user_id = user_ids[((k - 1) % NumProfiles) + 1]
        /\ Len(calls) = (bi - 1) * NumProfiles + (bj - 1)
        /\ bpc = "returned" => Len(calls) = Len(BulkPackages) * NumProfiles

\* C2 witness: a returned call over two packages and two profiles in which a
\* pair other than the last reported a failure.
C2_Witness ==
    /\ bpc = "returned"
    /\ Len(BulkPackages) = 2 /\ NumProfiles = 2
    /\ Len(calls) = 4
    /\ ~calls[1].res.success
    /\ calls[2].res.success

Caught == {"Timeout", "CommandFailed"}
Escaping == {"DeviceDisconnected", "DeviceNotFound", "PermissionDenied"}

Says(c, words) == \E i \in DOMAIN c.output : LowerTok(c.output[i]) \in words

\* the calls of enable_app/disable_app on their own whose command exited with status 0
ExitedZero == IF bpc = "single_returned" /\ ~calls[1].run.raised THEN {1} ELSE {}

\* what a call gives for output that has a success word (ok), else an error
\* word, else neither
Inferred(c, ok) ==
    /\ ~c.res.raised
    /\ IF ok THEN c.res.success
       ELSE IF Says(c, {"error", "exception"})
       THEN ~c.res.success /\ c.res.error = <<Strip(c.output)>>
       ELSE c.res.success
    /\ c.res.success => c.res.error = <<>>

\* C19 (as claimed): when the command exits zero, enable_app and disable_app
\* alike give success for output containing "enabled", "disabled" or
\* "new state"; otherwise failure with the trimmed output for output containing
\* "error" or "exception"; otherwise success.  A success carries no message.
C19_SameKeywordsBothDirections ==
    \A k \in ExitedZero :
        Inferred(calls[k], Says(calls[k], {"enabled", "disabled", "new state"}))

\* C19 (amended): the success words depend on the direction: "enabled" or
\* "new state" for enable_app, "disabled" or "new state" for disable_app; the
\* other direction's word does not give success.
C19_KeywordsOfTheDirection ==
    \A k \in ExitedZero :
        Inferred(calls[k],
                 Says(calls[k], {IF calls[k].enable THEN "enabled" ELSE "disabled", "new state"}))

\* C19 witness: disable_app sees output with "Enabled" and "Error" and reports
\* failure with the trimmed output.
C19_Witness ==
    /\ bpc = "single_returned"
    /\ ~calls[1].enable
    /\ Says(calls[1], {"enabled"}) /\ Says(calls[1], {"error"})
    /\ ~calls[1].res.success
    /\ calls[1].res.error = << <<"Enabled", "Error">> >>

\* C20: enable_disable_apps targets the supplied profile list when one is
\* given, otherwise the profiles the device lists, and [0] if the list is
\* empty: the targeted list is never empty, and every package reported as
\* success has had at least one enable/disable command issued for it.
C20_TargetedProfilesNeverEmpty ==
    /\ bpc \in {"loop", "returned"} =>
          /\ user_ids # <<>>
          /\ bArgs[1].user_ids # <<>> => user_ids = bArgs[1].user_ids[1]
    /\ bpc = "returned" =>
          \A p \in DOMAIN results :
              results[p][1] => \E k \in DOMAIN calls : calls[k].package = p

\* C20 failing input: an empty profile list is supplied; the call returns
\* success for a package without having issued any command.
C20_Witness ==
    /\ bpc = "returned"
    /\ bArgs[1].user_ids = << <<>> >>
    /\ bArgs[1].packages # <<>>
    /\ calls = <<>>
    /\ \A i \in DOMAIN bArgs[1].packages : results[bArgs[1].packages[i]] = <<TRUE, <<>>>>

\* the state-change subcommand of the requested action for a package and profile
Requested(package, user_id) ==
    <<"shell", "pm", IF bArgs[1].enable THEN "enable" ELSE "disable-user",
      "--user", NumStr(user_id), package>>

\* C27: enable_disable_apps does not roll back: every command a call issues is
\* the command of the requested action for the next (package, profile) pair in
\* loop order, whatever the earlier commands gave, so no inverse command
\* follows a failure and at most one command is issued per pair.
C27_NoRollback ==
    (InBulk /\ calls # <<>>) =>
        /\ Len(calls) <= Len(BulkPackages) * NumProfiles
        /\ \A k \in DOMAIN calls :
              calls[k].args = Requested(BulkPackages[((k - 1) \div NumProfiles) + 1],
                                        user_ids[((k - 1) % NumProfiles) + 1])

\* C27 witness: a disable call on one package and two profiles changed the
\* first profile, failed on the second, reported the failure and issued
\* nothing else.
C27_Witness ==
    /\ bpc = "returned"
    /\ ~bArgs[1].enable
    /\ Len(BulkPackages) = 1 /\ NumProfiles = 2
    /\ Len(calls) = 2
    /\ calls[1].res.success /\ calls[1].args[3] = "disable-user"
    /\ ~calls[2].res.success /\ calls[2].args[3] = "disable-user"
    /\ results[BulkPackages[1]][1] = FALSE

\* ====================================================================
\* The device directory: get_device_info, invalidate_cache, select_device
\* ====================================================================
MaxDevices == 2

ListedIds == {"emu-5554", "R58M", "10.0.0.7:5555"}

\* the line `adb devices -l` prints for a device in a state
DeviceLine(id, st) ==
    CASE id = "emu-5554" -> <<id, st, "product:redfin", "model:sdk_gphone", "transport_id:1">>
      [] id = "R58M" -> <<id, st, "usb:1-1", "model:Pixel_5", "transport_id:2">>
      [] OTHER -> <<id, st>>

Banner == <<"List", "of", "devices", "attached">>

\* the listings the bridge may print: up to MaxDevices devices, each listed once
DeviceRows ==
    {r \in SeqsUpTo(ListedIds \X {"device", "offline"}, MaxDevices) :
        \A i, j \in DOMAIN r : i # j => r[i][1] # r[j][1]}

ListingText(rows) ==
    <<Banner>> \o [i \in DOMAIN rows |-> DeviceLine(rows[i][1], rows[i][2])] \o << <<>> >>

\* The ways `adb devices -l` may fail.
ListingFailures ==
    { Proc(TRUE, 0, <<>>, <<>>),
      Proc(FALSE, 1, <<>>, <<"cannot connect to daemon">>),
      Proc(FALSE, 1, <<>>, <<"error:", "Device", "not found">>) }

\* What the bridge answers to `adb devices -l` while the devices `rows` are attached.
ListingOf(rows) == {Proc(FALSE, 0, ListingText(rows), <<>>)} \cup ListingFailures

\* What the bridge may answer to `adb devices -l`.
ListingProcs == UNION {ListingOf(rows) : rows \in DeviceRows}

\* What the bridge may answer to the n-th getprop of get_device_info.
GetpropProcs(n) ==
    CASE n = 1 -> { Proc(FALSE, 0, <<"Pixel 5", "\n">>, <<>>),
                    Proc(FALSE, 0, <<"\n">>, <<>>),
                    Proc(TRUE, 0, <<>>, <<>>),
                    Proc(FALSE, 1, <<>>, <<"error:", "Device", "OFFLINE">>) }
      [] n = 2 -> { Proc(FALSE, 0, <<"Google", "\n">>, <<>>),
                    Proc(FALSE, 1, <<>>, <<"Failure">>),
                    Proc(FALSE, 1, <<>>, <<"Permission Denied">>) }
      [] n = 3 -> { Proc(FALSE, 0, <<"13", "\n">>, <<>>),
                    Proc(TRUE, 0, <<>>, <<>>) }
      [] OTHER -> { Proc(FALSE, 0, <<"33", "\n">>, <<>>),
                    Proc(FALSE, 0, <<"REL", "\n">>, <<>>),
                    Proc(FALSE, 1, <<>>, <<"Failure">>),
                    Proc(FALSE, 1, <<>>, <<"error:", "Device", "disconnected">>) }

ListingArgs == <<"devices", "-l">>
GetpropArgs(n) == <<"shell", "getprop", PropNames[n]>>

DirDone == [raised |-> FALSE, kind |-> "", msg |-> <<>>, value |-> <<>>]

\* known[id] after an operation returned `out` for id
Learn(id, out) ==
    IF ~out.raised /\ out.value # <<>> /\ IsReady(out.value[1])
    THEN [known EXCEPT ![id] = out.value]
    ELSE known

\* A mutant of CacheUsable: any cached entry short-circuits the fetch.
CacheUsableAnySdk(cached, force_refresh) == ~force_refresh /\ cached # <<>>

\* if not force_refresh: ... cached is not None and cached.sdk_level > 0   (lines 230-233)
CacheUsable(cached, force_refresh) ==
    ~force_refresh /\ cached # <<>> /\ cached[1].sdk_level > 0

\* A mutant of CacheSet: storing an entry drops the entries of the other devices.
CacheSetAlone(cache, device_id, info) ==
    [id \in DOMAIN cache |-> IF id = device_id THEN <<info>> ELSE <<>>]

\* A mutant of CacheSet: an entry that exists is kept.
CacheSetIfAbsent(cache, device_id, info) ==
    IF cache[device_id] = <<>> THEN [cache EXCEPT ![device_id] = <<info>>] ELSE cache

\* DeviceCache.set: self._cache[device_id] = info
CacheSet(cache, device_id, info) == [cache EXCEPT ![device_id] = <<info>>]

\* DeviceCache.clear
CacheClear(cache) == [id \in DOMAIN cache |-> <<>>]

\* A mutant of CacheInvalidate: every entry is dropped.
CacheInvalidateAll(cache, device_id) == CacheClear(cache)

\* DeviceCache.invalidate: self._cache.pop(device_id, None)
CacheInvalidate(cache, device_id) ==
    [id \in DOMAIN cache |-> IF id = device_id THEN <<>> ELSE cache[id]]

\* A mutant of CacheOnRaise: a failing call drops the entry of the device it asked for.
CacheOnRaiseDropsEntry(cache, device_id) == CacheInvalidate(cache, device_id)

\* the cache when get_device_info raises: the raise at lines 239-240 and a failure
\* escaping list_devices or _get_prop come before self._cache.set at line 267
CacheOnRaise(cache, device_id) == cache

\* `rows` lists the device id
Lists(rows, id) == \E i \in DOMAIN rows : rows[i][1] = id

\* an operation of the device directory, its arguments and, for get_device_info,
\* whether the device asked for is attached while the call runs
DirOp(name, device_id, force_refresh, use_cache, attached) ==
    [name |-> name, device_id |-> device_id, force_refresh |-> force_refresh,
     use_cache |-> use_cache, attached |-> attached]

\* get_device_info is entered: the cache check, lines 229-233
GdiCall ==
    /\ dpc = "idle"
    /\ \E device_id \in QueryIds, force_refresh \in BOOLEAN, attached \in BOOLEAN :
          LET cached == device_cache[device_id]
          IN  /\ dOp' = <<DirOp("get_device_info", device_id, force_refresh, FALSE, attached)>>
              /\ IF CacheUsable(cached, force_refresh)
                 THEN /\ dpc' = "idle"
                      /\ dRet' = <<DirReturned(cached[1])>>
                      /\ known' = Learn(device_id, DirReturned(cached[1]))
                 ELSE /\ dpc' = "gdi_list"
                      /\ dRet' = <<>>
                      /\ UNCHANGED known
    /\ dCmds' = <<>>
    /\ dRuns' = <<>>
    /\ dListed' = <<>>
    /\ dFrame' = NoFrame
    /\ UNCHANGED device_cache
    /\ UNCHANGED notDir

\* devices = self.list_devices() and the lookup of the device, lines 236-242
GdiList ==
    /\ dpc = "gdi_list"
    /\ \E rows \in {rs \in DeviceRows : Lists(rs, dOp[1].device_id) = dOp[1].attached} :
       \E proc \in ListingOf(rows) :
          LET r == Run(ListingArgs, PROP_TIMEOUT, None, proc)
              parsed == ParseDevicesOutput(r.stdout)
              devices == ListDevices(parsed, FALSE, device_cache)
              device == FindDevice(devices, dOp[1].device_id)
              out == IF r.raised THEN DirRaised(r.kind, r.msg)
                     ELSE IF device = <<>>
                     THEN DirRaised("DeviceNotFound", DeviceNotFoundMsg(<<dOp[1].device_id>>))
                     ELSE DirReturned(device[1])
          IN  /\ dRuns' = Append(dRuns, RunKind(r))
              /\ dListed' = IF r.raised THEN <<>>
                            ELSE <<SelectSeq(parsed,
                                  LAMBDA row : row.device_id = dOp[1].device_id)>>
              /\ IF ~r.raised /\ device # <<>> /\ IsReady(device[1])
                 THEN /\ dpc' = "gdi_prop"
                      /\ dFrame' = [device |-> device, texts |-> <<>>]
                      /\ UNCHANGED <<dRet, known>>
                 ELSE /\ dpc' = "idle"
                      /\ dRet' = <<out>>
                      /\ known' = Learn(dOp[1].device_id, out)
                      /\ UNCHANGED dFrame
    /\ dCmds' = Append(dCmds, ListingArgs)
    /\ device_cache' = IF dRet' # <<>> /\ dRet'[1].raised
                       THEN CacheOnRaise(device_cache, dOp[1].device_id)
                       ELSE device_cache
    /\ UNCHANGED dOp
    /\ UNCHANGED notDir

\* One self._get_prop(...) of lines 245-248; after the fourth, lines 250-268
GdiProp ==
    /\ dpc = "gdi_prop"
    /\ LET n == Len(dFrame.texts) + 1
           device_id == dOp[1].device_id
       IN  /\ dCmds' = Append(dCmds, GetpropArgs(n))
           /\ \E proc \in GetpropProcs(n) :
                 LET g == GetProp(device_id, PropNames[n], proc)
                     texts == Append(dFrame.texts, g.text)
                     full_info == FullInfo(dFrame.device[1], texts)
                 IN  /\ dRuns' = Append(dRuns, RunKind(Run(GetpropArgs(n), PROP_TIMEOUT,
                                                          device_id, proc)))
                     /\ IF g.raised
                        THEN /\ dpc' = "idle"
                             /\ dRet' = <<DirRaised(g.kind, g.msg)>>
                             /\ dFrame' = NoFrame
                             /\ device_cache' = CacheOnRaise(device_cache, device_id)
                             /\ UNCHANGED known
                        ELSE IF n < Len(PropNames)
                        THEN /\ dFrame' = [dFrame EXCEPT !.texts = texts]
                             /\ UNCHANGED <<dpc, dRet, device_cache, known>>
                        ELSE /\ device_cache' = CacheSet(device_cache, device_id, full_info)
                             /\ dpc' = "idle"
                             /\ dRet' = <<DirReturned(full_info)>>
                             /\ known' = Learn(device_id, DirReturned(full_info))
                             /\ dFrame' = [dFrame EXCEPT !.texts = texts]
    /\ UNCHANGED <<dOp, dListed>>
    /\ UNCHANGED notDir

\* invalidate_cache, lines 302-305
InvalidateCache ==
    /\ dpc = "idle"
    /\ \E device_id \in {None, ""} \cup QueryIds :
          /\ dOp' = <<DirOp("invalidate_cache", device_id, FALSE, FALSE, FALSE)>>
          /\ IF Truthy(device_id)
             THEN /\ device_cache' = CacheInvalidate(device_cache, device_id)
                  /\ known' = [known EXCEPT ![device_id] = <<>>]
             ELSE /\ device_cache' = CacheClear(device_cache)
                  /\ known' = [id \in QueryIds |-> <<>>]
    /\ dRet' = <<DirDone>>
    /\ dCmds' = <<>>
    /\ dRuns' = <<>>
    /\ dListed' = <<>>
    /\ dFrame' = NoFrame
    /\ UNCHANGED dpc
    /\ UNCHANGED notDir

\* select_device is entered, line 199
SelectCall ==
    /\ dpc = "idle"
    /\ \E device_id \in {None, ""} \cup ListedIds :
          dOp' = <<DirOp("select_device", device_id, FALSE, FALSE, FALSE)>>
    /\ dpc' = "sel_list"
    /\ dRet' = <<>>
    /\ dCmds' = <<>>
    /\ dRuns' = <<>>
    /\ dListed' = <<>>
    /\ dFrame' = NoFrame
    /\ UNCHANGED <<device_cache, known>>
    /\ UNCHANGED notDir

\* validate_device is entered
ValidateCall ==
    /\ dpc = "idle"
    /\ \E device_id \in ListedIds :
          dOp' = <<DirOp("validate_device", device_id, FALSE, FALSE, FALSE)>>
    /\ dpc' = "sel_list"
    /\ dRet' = <<>>
    /\ dCmds' = <<>>
    /\ dRuns' = <<>>
    /\ dListed' = <<>>
    /\ dFrame' = NoFrame
    /\ UNCHANGED <<device_cache, known>>
    /\ UNCHANGED notDir

\* list_devices is entered
ListDevicesCall ==
    /\ dpc = "idle"
    /\ \E use_cache \in BOOLEAN :
          dOp' = <<DirOp("list_devices", None, FALSE, use_cache, FALSE)>>
    /\ dpc' = "sel_list"
    /\ dRet' = <<>>
    /\ dCmds' = <<>>
    /\ dRuns' = <<>>
    /\ dListed' = <<>>
    /\ dFrame' = NoFrame
    /\ UNCHANGED <<device_cache, known>>
    /\ UNCHANGED notDir

\* the listing made by list_devices, for itself or for validate_device or
\* get_ready_devices, and what the operation makes of it
SelectList ==
    /\ dpc = "sel_list"
    /\ \E proc \in ListingProcs :
          LET r == Run(ListingArgs, PROP_TIMEOUT, None, proc)
              parsed == ParseDevicesOutput(r.stdout)
              devices == ListDevices(parsed, dOp[1].use_cache, device_cache)
          IN  /\ dListed' = IF r.raised THEN <<>> ELSE <<parsed>>
              /\ dRuns' = Append(dRuns, RunKind(r))
              /\ dRet' = <<IF r.raised THEN DirRaised(r.kind, r.msg)
                           ELSE IF dOp[1].name = "list_devices" THEN DirReturned(devices)
                           ELSE IF Truthy(dOp[1].device_id)
                           THEN ValidateAmong(devices, dOp[1].device_id)
                           ELSE SelectAmong(ReadyOf(devices))>>
    /\ dpc' = "idle"
    /\ dCmds' = Append(dCmds, ListingArgs)
    /\ UNCHANGED <<dOp, device_cache, dFrame, known>>
    /\ UNCHANGED notDir

InitDir == RunIdle /\ BulkIdle /\ DirIdle /\ ListIdle /\ UiIdle
NextDir ==
    \/ GdiCall
    \/ GdiList
    \/ GdiProp
    \/ InvalidateCache
    \/ SelectCall
    \/ ValidateCall
    \/ ListDevicesCall
    \/ SelectList
SpecDir == InitDir /\ [][NextDir]_vars

\* ====================================================================
\* list_packages, get_app_info and list_apps
\* ====================================================================
MaxLines == 2
PoolPackages == 9

\* ThreadPoolExecutor(max_workers=8)
MaxWorkers == 8

\* The device emu-5554 holds SmallPackages, of which SystemPackages are system
\* packages; the device farm-9 holds the first PoolPackages names p01, p02, ...
SmallPackages == {"Com.b", "com.a", "com.a.b"}
SystemPackages == {"com.a.b"}
PoolNames == SubSeq(CodeOrder, 5, 4 + PoolPackages)

Offline == <<"error:", "Device", "OFFLINE">>

LinesOf(names) == [i \in DOMAIN names |-> PackageLine(names[i])]

\* the texts `pm list packages` may print on emu-5554: up to MaxLines packages,
\* each listed once, possibly after a line that names no package
PmTexts ==
    LET listed == {n \in SeqsUpTo(SmallPackages, MaxLines) :
                      \A i, j \in DOMAIN n : i # j => n[i] # n[j]}
    IN  {LinesOf(n) : n \in listed}
            \cup {<< <<"WARNING:", "linker">> >> \o LinesOf(n) : n \in {m \in listed : Len(m) = 1}}

\* What the bridge may answer to `pm list packages <flag>`.
PmListProcs(device_id, flag) ==
    IF device_id = "farm-9"
    THEN {Proc(FALSE, 0,
               LinesOf(IF flag = "-s" THEN SubSeq(PoolNames, 1, PoolPackages - 1)
                       ELSE SubSeq(PoolNames, PoolPackages, PoolPackages)),
               <<>>)}
    ELSE {Proc(FALSE, 0, text, <<>>) : text \in PmTexts}
            \cup { Proc(TRUE, 0, <<>>, <<>>),
                   Proc(FALSE, 1, <<>>, Offline),
                   Proc(FALSE, 1, <<>>, <<"Permission Denied">>) }

\* `pm list packages -s <name>` prints the system packages whose name contains <name>
SystemListing(package_name) ==
    LinesOf(SortedSet({p \in SystemPackages : StartsWith(p, package_name)}))

\* `dumpsys package <name>` on emu-5554
DumpText(package_name) ==
    CASE package_name = "com.a" ->
             << DumpLine("version", 0, 7, ""),
                DumpLine("label", 0, 0, "\"Maps\""),
                DumpLine("user", 0, 0, ""),
                DumpLine("user", 10, 2, "") >>
      [] package_name = "com.a.b" ->
             << DumpLine("other", 0, 0, ""),
                DumpLine("label", 0, 0, "0x7f0a"),
                DumpLine("user", 0, 2, ""),
                DumpLine("user", 10, 3, "") >>
      [] OTHER -> <<>>

BasePath(package_name) == << PathLine(TRUE, "/data/app/" \o package_name, "base.apk") >>

Failing ==
    { Proc(TRUE, 0, <<>>, <<>>),
      Proc(FALSE, 1, <<>>, <<"Failure">>),
      Proc(FALSE, 1, <<>>, Offline),
      Proc(FALSE, 1, <<>>, <<"Permission Denied">>) }

\* What the bridge may answer to each subcommand of one get_app_info call.
SysProcs(package_name) ==
    {Proc(FALSE, 0, SystemListing(package_name), <<>>), Proc(FALSE, 0, <<>>, <<>>)}
        \cup Failing

DumpProcs(package_name) ==
    {Proc(FALSE, 0, DumpText(package_name), <<>>), Proc(FALSE, 0, <<>>, <<>>)}
        \cup Failing

PathProcs(package_name) ==
    {Proc(FALSE, 0, BasePath(package_name), <<>>),
     Proc(FALSE, 0, << PathLine(TRUE, "/data/app/x", "split.apk") >>, <<>>)}
        \cup Failing

DuProcs ==
    {Proc(FALSE, 0, << <<DuPart("25", "M"), DuPart("", "")>> >>, <<>>),
     Proc(FALSE, 0, << <<DuPart("512", "")>> >>, <<>>),
     Proc(FALSE, 0, << <<DuPart("1.2.3", "")>> >>, <<>>),
     Proc(FALSE, 0, << <<DuPart("", "")>> >>, <<>>),
     Proc(FALSE, 0, <<>>, <<>>)}
        \cup Failing

AppProcs(package_name) ==
    [sys : SysProcs(package_name), dump : DumpProcs(package_name),
     path : PathProcs(package_name), du : DuProcs]

\* What the bridge answers to the queries of the fan-out of list_apps.
PoolProcs(device_id, package_name) ==
    IF device_id = "farm-9"
    THEN [sys : {Proc(FALSE, 0, <<>>, <<>>)},
          dump : {Proc(TRUE, 0, <<>>, <<>>)},
          path : {Proc(FALSE, 0, <<>>, <<>>)},
          du : {Proc(FALSE, 0, <<>>, <<>>)}]
    ELSE [sys : {Proc(FALSE, 0, SystemListing(package_name), <<>>),
                 Proc(TRUE, 0, <<>>, <<>>)},
          dump : {Proc(FALSE, 0, DumpText(package_name), <<>>),
                  Proc(FALSE, 1, <<>>, <<"Failure">>),
                  Proc(FALSE, 1, <<>>, Offline),
                  Proc(FALSE, 1, <<>>, <<"Permission Denied">>)},
          path : {Proc(FALSE, 0, BasePath(package_name), <<>>)},
          du : {Proc(FALSE, 0, << <<DuPart("25", "M"), DuPart("", "")>> >>, <<>>),
                Proc(TRUE, 0, <<>>, <<>>)}]

ListDevicesIds == {"emu-5554", "farm-9"}
AllPackages == SmallPackages \cup {PoolNames[i] : i \in DOMAIN PoolNames}

\* For each query of the fan-out, the ways it may end: how get_app_info ended
\* (query) and what fetch_app made of it (result).
FetchOutcomes ==
    [q \in ListDevicesIds \X AllPackages \X {0, 10} \X BOOLEAN |->
        {[query |-> GetAppInfo(q[1], q[2], q[3], q[4], procs),
          result |-> FetchApp(q[1], q[2], q[3], q[4], procs)] :
            procs \in PoolProcs(q[1], q[2])}]

ListOp(name, device_id, package, user_id, include_system, include_user, fetch_sizes, callback) ==
    [name |-> name, device_id |-> device_id, package |-> package, user_id |-> user_id,
     include_system |-> include_system, include_user |-> include_user,
     fetch_sizes |-> fetch_sizes, callback |-> callback, answers |-> <<>>]

\* the list_apps calls made
ListAppsCalls ==
    { ListOp("list_apps", "emu-5554", "", 0, TRUE, TRUE, TRUE, TRUE),
      ListOp("list_apps", "emu-5554", "", 10, FALSE, TRUE, FALSE, FALSE),
      ListOp("list_apps", "emu-5554", "", 0, FALSE, FALSE, FALSE, TRUE),
      ListOp("list_apps", "farm-9", "", 0, TRUE, TRUE, FALSE, FALSE) }

Queued == [status |-> "queued", out |-> <<>>]

Running(f) == {t \in DOMAIN f : f[t].status = "running"}

\* A mutant of CanStart: the executor starts every submitted query at once.
CanStartUnbounded(f) == TRUE

\* A mutant of CanStart: once a query has failed no further query is started.
CanStartUnlessFailed(f) ==
    /\ Cardinality(Running(f)) < MaxWorkers
    /\ \A t \in DOMAIN f : f[t].out # <<>> => ~f[t].out[1].query.raised

\* a worker thread is free: fewer than max_workers queries are being executed
CanStart(f) == Cardinality(Running(f)) < MaxWorkers

PmListArgs(flag) == <<"shell", "pm", "list", "packages", flag>>

\* list_apps is entered (line 406: the call of list_packages)
ListAppsCall ==
    /\ lpc = "idle"
    /\ \E call \in ListAppsCalls : lOp' = <<call>>
    /\ lpc' = "lp_system"
    /\ UNCHANGED <<lCmds, pkg_set, pkg_list, fut, apps, completed, cbLog, lRet>>
    /\ UNCHANGED notList

\* list_packages is entered
ListPackagesCall ==
    /\ lpc = "idle"
    /\ \E system_apps, user_apps \in BOOLEAN :
          lOp' = <<ListOp("list_packages", "emu-5554", "", 0, system_apps, user_apps,
                          FALSE, FALSE)>>
    /\ lpc' = "lp_system"
    /\ UNCHANGED <<lCmds, pkg_set, pkg_list, fut, apps, completed, cbLog, lRet>>
    /\ UNCHANGED notList

\* the operation, with the answer the bridge gave to a subcommand of list_packages
Answered(proc) ==
    IF lOp[1].name = "list_packages"
    THEN <<[lOp[1] EXCEPT !.answers = Append(@, proc)]>>
    ELSE lOp

\* list_packages, lines 326-328: the system listing
LpSystem ==
    /\ lpc = "lp_system"
    /\ IF lOp[1].include_system
       THEN \E proc \in PmListProcs(lOp[1].device_id, "-s") :
               LET r == Run(PmListArgs("-s"), 0, lOp[1].device_id, proc)
               IN  /\ lCmds' = Append(lCmds, [args |-> PmListArgs("-s"), kind |-> RunKind(r)])
                   /\ lOp' = Answered(proc)
                   /\ IF r.raised
                      THEN /\ lpc' = "finished"
                           /\ lRet' = <<Threw(r.kind, r.msg, <<>>)>>
                           /\ UNCHANGED pkg_set
                      ELSE /\ lpc' = "lp_user"
                           /\ pkg_set' = pkg_set \cup SeqRange(ParsePackagesOutput(r.stdout))
                           /\ UNCHANGED lRet
       ELSE /\ lpc' = "lp_user"
            /\ UNCHANGED <<lOp, lCmds, pkg_set, lRet>>
    /\ UNCHANGED <<pkg_list, fut, apps, completed, cbLog>>
    /\ UNCHANGED notList

\* list_packages, lines 330-334: the third-party listing and sorted(packages);
\* in list_apps, lines 407-421 follow: every package is submitted to the executor
LpUser ==
    /\ lpc = "lp_user"
    /\ \E proc \in IF lOp[1].include_user THEN PmListProcs(lOp[1].device_id, "-3")
                   ELSE {Proc(FALSE, 0, <<>>, <<>>)} :
          LET r == IF lOp[1].include_user
                   THEN Run(PmListArgs("-3"), 0, lOp[1].device_id, proc)
                   ELSE Returned(<<>>, <<>>)
              all == pkg_set \cup SeqRange(ParsePackagesOutput(r.stdout))
              sorted == SortedSet(all)
          IN  /\ lCmds' = IF lOp[1].include_user
                          THEN Append(lCmds, [args |-> PmListArgs("-3"), kind |-> RunKind(r)])
                          ELSE lCmds
              /\ lOp' = IF lOp[1].include_user THEN Answered(proc) ELSE lOp
              /\ IF r.raised
                 THEN /\ lpc' = "finished"
                      /\ lRet' = <<Threw(r.kind, r.msg, <<>>)>>
                      /\ UNCHANGED <<pkg_set, pkg_list, fut>>
                 ELSE /\ pkg_set' = all
                      /\ pkg_list' = sorted
                      /\ IF lOp[1].name = "list_packages"
                         THEN /\ lpc' = "finished"
                              /\ lRet' = <<Gave(sorted, <<>>)>>
                              /\ UNCHANGED fut
                         ELSE /\ lpc' = "pool"
                              /\ fut' = [t \in DOMAIN sorted |-> Queued]
                              /\ UNCHANGED lRet
    /\ UNCHANGED <<apps, completed, cbLog>>
    /\ UNCHANGED notList

\* a worker thread of the executor takes the next submitted query off the queue
WorkerStart ==
    /\ lpc \in {"pool", "draining"}
    /\ \E t \in DOMAIN fut :
          /\ fut[t].status = "queued"
          /\ \A u \in DOMAIN fut : u < t => fut[u].status # "queued"
          /\ CanStart(fut)
          /\ fut' = [fut EXCEPT ![t].status = "running"]
    /\ UNCHANGED <<lpc, lOp, lCmds, pkg_set, pkg_list, apps, completed, cbLog, lRet>>
    /\ UNCHANGED notList

\* fetch_app(pkg) ends in a worker thread, lines 411-416
WorkerFinish ==
    /\ lpc \in {"pool", "draining"}
    /\ \E t \in DOMAIN fut :
          /\ fut[t].status = "running"
          /\ \E out \in FetchOutcomes[<<lOp[1].device_id, pkg_list[t], lOp[1].user_id,
                                        lOp[1].fetch_sizes>>] :
                fut' = [fut EXCEPT ![t] = [status |-> "done", out |-> <<out>>]]
    /\ UNCHANGED <<lpc, lOp, lCmds, pkg_set, pkg_list, apps, completed, cbLog, lRet>>
    /\ UNCHANGED notList

\* A mutant of Reports: progress is reported for the apps that were fetched only.
ReportsFetchedOnly(callback, out) == callback /\ ~out.raised /\ out.value # <<>>

\* if progress_callback: (line 427), reached for every yielded future
Reports(callback, out) == callback

\* as_completed yields a finished future to the calling thread: lines 424-435.
\* The callback is the caller's code: an invocation of it may raise, which ends
\* the loop and leaves the with block through the executor's __exit__.
MainYield ==
    /\ lpc = "pool"
    /\ \E t \in DOMAIN fut :
          /\ fut[t].status = "done"
          /\ LET out == fut[t].out[1].result
             IN  /\ fut' = [fut EXCEPT ![t].status = "yielded"]
                 /\ completed' = completed + 1
                 /\ cbLog' = IF Reports(lOp[1].callback, out)
                             THEN Append(cbLog, [package |-> pkg_list[t],
                                                 current |-> completed + 1,
                                                 total |-> Len(pkg_list)])
                             ELSE cbLog
                 /\ \E callback_raises \in IF Reports(lOp[1].callback, out)
                                            THEN BOOLEAN ELSE {FALSE} :
                       IF callback_raises
                       THEN lpc' = "draining" /\ UNCHANGED apps
                       ELSE /\ UNCHANGED lpc
                            /\ apps' = IF ~out.raised /\ out.value # <<>>
                                       THEN Append(apps, out.value[1])
                                       ELSE apps
    /\ UNCHANGED <<lOp, lCmds, pkg_set, pkg_list, lRet>>
    /\ UNCHANGED notList

\* A mutant of Drained: the executor is shut down without waiting.
DrainedNoWait(f) == TRUE

\* ThreadPoolExecutor.__exit__ is shutdown(wait=True): it returns when every
\* submitted query, the queued ones included, has been run to its end
Drained(f) == \A t \in DOMAIN f : f[t].status \in {"done", "yielded"}

\* the with block is left by the callback's exception, lines 419-435
ListRaise ==
    /\ lpc = "draining"
    /\ Drained(fut)
    /\ lpc' = "finished"
    /\ lRet' = <<Threw("CallbackError", <<>>, <<>>)>>
    /\ UNCHANGED <<lOp, lCmds, pkg_set, pkg_list, fut, apps, completed, cbLog>>
    /\ UNCHANGED notList

\* the loop over as_completed and the with block end; line 438
ListReturn ==
    /\ lpc = "pool"
    /\ \A t \in DOMAIN fut : fut[t].status = "yielded"
    /\ Drained(fut)
    /\ lpc' = "finished"
    /\ lRet' = <<Gave(SortedApps(apps), <<>>)>>
    /\ UNCHANGED <<lOp, lCmds, pkg_set, pkg_list, fut, apps, completed, cbLog>>
    /\ UNCHANGED notList

\* one get_app_info call
GetAppInfoCall ==
    /\ lpc = "idle"
    /\ \E package \in SmallPackages, user_id \in {0, 10}, fetch_size \in BOOLEAN :
          /\ lOp' = <<ListOp("get_app_info", "emu-5554", package, user_id, FALSE, FALSE,
                             fetch_size, FALSE)>>
          /\ \E procs \in AppProcs(package) :
                lRet' = <<GetAppInfo("emu-5554", package, user_id, fetch_size, procs)>>
    /\ lpc' = "finished"
    /\ UNCHANGED <<lCmds, pkg_set, pkg_list, fut, apps, completed, cbLog>>
    /\ UNCHANGED notList

\* one _is_system_app call
IsSystemAppCall ==
    /\ lpc = "idle"
    /\ \E device_id \in {"emu-5554", ""}, package \in SmallPackages :
          \E proc \in SysProcs(package) :
             /\ lOp' = <<[ListOp("is_system_app", device_id, package, 0, FALSE, FALSE,
                                 FALSE, FALSE) EXCEPT !.answers = <<proc>>]>>
             /\ lRet' = <<IsSystemApp(device_id, package, proc)>>
    /\ lpc' = "finished"
    /\ UNCHANGED <<lCmds, pkg_set, pkg_list, fut, apps, completed, cbLog>>
    /\ UNCHANGED notList

\* one _get_app_size call
GetAppSizeCall ==
    /\ lpc = "idle"
    /\ \E package \in SmallPackages :
          \E path_proc \in PathProcs(package), du_proc \in DuProcs :
             /\ lOp' = <<[ListOp("get_app_size", "emu-5554", package, 0, FALSE, FALSE,
                                 TRUE, FALSE) EXCEPT !.answers = <<path_proc, du_proc>>]>>
             /\ lRet' = <<GetAppSize("emu-5554", package, path_proc, du_proc)>>
    /\ lpc' = "finished"
    /\ UNCHANGED <<lCmds, pkg_set, pkg_list, fut, apps, completed, cbLog>>
    /\ UNCHANGED notList

\* the texts parse_du_output is applied to
DuTexts ==
    {proc.stdout : proc \in DuProcs}
        \cup { << <<DuPart(".", "")>> >>,
               << <<DuPart("1.5", "G"), DuPart("", "")>>, <<DuPart("1.2.3", "")>> >> }

\* one parse_du_output call
ParseDuCall ==
    /\ lpc = "idle"
    /\ \E text \in DuTexts :
          LET size == ParseDuOutput(text)
          IN  /\ lOp' = <<[ListOp("parse_du_output", "", "", 0, FALSE, FALSE, FALSE, FALSE)
                              EXCEPT !.answers = <<text>>]>>
              /\ lRet' = <<IF size.raised THEN Threw("ValueError", <<>>, <<>>)
                           ELSE Gave(<<size.size>>, <<>>)>>
    /\ lpc' = "finished"
    /\ UNCHANGED <<lCmds, pkg_set, pkg_list, fut, apps, completed, cbLog>>
    /\ UNCHANGED notList

InitList == RunIdle /\ BulkIdle /\ DirIdle /\ ListIdle /\ UiIdle
NextList ==
    \/ ListAppsCall
    \/ ListPackagesCall
    \/ LpSystem
    \/ LpUser
    \/ WorkerStart
    \/ WorkerFinish
    \/ MainYield
    \/ ListReturn
    \/ ListRaise
    \/ GetAppInfoCall
    \/ IsSystemAppCall
    \/ GetAppSizeCall
    \/ ParseDuCall
SpecList == InitList /\ [][NextList]_vars

\* a step of the calling thread or of the executor that waits for no bridge
\* subprocess: the start of a queued query, the yield of a finished one, the end
\* of the call
ListStep == WorkerStart \/ MainYield \/ ListReturn \/ ListRaise

\* The threads of a call keep running: as long as such a step can be taken, one
\* is taken.
SpecListLive == SpecList /\ WF_vars(ListStep)

\* --------------------------------------------------------------------
\* Properties of list_packages, get_app_info and list_apps
\* --------------------------------------------------------------------
ListOpIs(name) == lOp # <<>> /\ lOp[1].name = name

\* the package-list fetch of the call ended without a failure
ListFetched == \A i \in DOMAIN lCmds : lCmds[i].kind = ""

\* the caller's progress callback raised and ended the call
CallbackRaised == lRet # <<>> /\ lRet[1].raised /\ lRet[1].kind = "CallbackError"

\* list_apps has ended after the fan-out, and not by a failure of the callback
AppsListed ==
    ListOpIs("list_apps") /\ lpc = "finished" /\ ListFetched /\ ~CallbackRaised

QueryOf(t) == fut[t].out[1].query

\* the packages whose get_app_info call failed
FailedQueries == {t \in DOMAIN fut : QueryOf(t).raised}

SortedByLowerName(s) ==
    \A i, j \in DOMAIN s :
        i < j => Rank(LowerName(s[i].package_name)) <= Rank(LowerName(s[j].package_name))

\* C5: list_apps on N packages of which k have a failing get_app_info call returns
\* exactly the N-k AppInfo of the queries that succeeded, sorted by lower-case
\* package name, after N progress callbacks; no per-package failure makes the
\* listing fail, and the fan-out can always proceed.
C5_FailedPackagesDropped ==
    /\ AppsListed =>
          /\ ~lRet[1].raised
          /\ Len(lRet[1].value) = Len(pkg_list) - Cardinality(FailedQueries)
          /\ SeqRange(lRet[1].value)
                = {QueryOf(t).value[1] : t \in DOMAIN fut \ FailedQueries}
          /\ SortedByLowerName(lRet[1].value)
          /\ lOp[1].callback => Len(cbLog) = Len(pkg_list)
    /\ lpc = "pool" =>
          /\ lRet = <<>>
          /\ ENABLED (WorkerStart \/ WorkerFinish \/ MainYield \/ ListReturn)

\* C5 witness: three packages were listed, the queries of two of them failed in
\* different ways, and the list of the one remaining app was returned after three
\* callbacks.
C5_Witness ==
    /\ AppsListed
    /\ Len(pkg_list) = 3
    /\ \E t, u \in FailedQueries : QueryOf(t).kind # QueryOf(u).kind
    /\ Len(lRet[1].value) = 1
    /\ Len(cbLog) = 3

\* C6: at most max_workers get_app_info queries are in flight during list_apps,
\* and none is in flight outside its fan-out.
C6_AtMostEightInFlight ==
    /\ Cardinality(Running(fut)) <= MaxWorkers
    /\ lpc \notin {"pool", "draining"} => Running(fut) = {}

\* C6 witness: more packages than workers; eight queries are in flight while
\* another waits in the queue.
C6_Witness ==
    /\ lpc = "pool"
    /\ Len(pkg_list) > MaxWorkers
    /\ Cardinality(Running(fut)) = MaxWorkers
    /\ \E t \in DOMAIN fut : fut[t].status = "queued"

Disconnected(runs) == \E i \in DOMAIN runs : runs[i] = "DeviceDisconnected"

ListingDisconnected == \E i \in DOMAIN lCmds : lCmds[i].kind = "DeviceDisconnected"

PropagatedDisconnect == lRet[1].raised /\ lRet[1].kind = "DeviceDisconnected"

PermissionAt(runs, S) == \E i \in DOMAIN runs \cap S : runs[i] = "PermissionDenied"

ListingDenied == \E i \in DOMAIN lCmds : lCmds[i].kind = "PermissionDenied"

\* the failure carries the first two words of the subcommand and the device id
PropagatedDenial(ops) ==
    /\ lRet[1].raised /\ lRet[1].kind = "PermissionDenied"
    /\ \E op \in ops : lRet[1].msg = PermissionMsg(op, lOp[1].device_id)

HelperDone(name) == ListOpIs(name) /\ lpc = "finished"

Unparsable(du_stdout) ==
    /\ du_stdout # <<>> /\ Head(du_stdout) # <<>>
    /\ ~IsFloat(Head(du_stdout)[1].num)

\* C14: _get_app_size never raises: a failure of the path command or of the disk
\* usage command, an unresolved install path and unparsable disk usage output
\* all give 0.0.
C14_SizeNeverRaises ==
    HelperDone("get_app_size") =>
        /\ ~lRet[1].raised
        /\ ( \/ \E i \in DOMAIN lRet[1].runs : lRet[1].runs[i] # ""
             \/ ParsePackagePath(lOp[1].answers[1].stdout) = <<>>
             \/ Unparsable(lOp[1].answers[2].stdout) )
              => lRet[1].value = <<0>>

\* C14 failing input: both commands succeed and the disk usage output starts
\* with 1.2.3; _get_app_size raises ValueError.
C14_Witness ==
    /\ HelperDone("get_app_size")
    /\ lRet[1].runs = <<"", "">>
    /\ Unparsable(lOp[1].answers[2].stdout)
    /\ Head(lOp[1].answers[2].stdout)[1].num = "1.2.3"
    /\ lRet[1].raised /\ lRet[1].kind = "ValueError"

\* the subcommands list_packages is to issue for its flags, in order
FlagCommands ==
    (IF lOp[1].include_system THEN <<PmListArgs("-s")>> ELSE <<>>)
        \o (IF lOp[1].include_user THEN <<PmListArgs("-3")>> ELSE <<>>)

\* the package names on the package: lines of the answers list_packages got
NamesListed ==
    UNION { {line[2] : line \in {l \in SeqRange(lOp[1].answers[i].stdout) :
                                    Len(l) >= 2 /\ l[1] = "package:"}} :
            i \in DOMAIN lOp[1].answers }

\* C18: list_packages issues one subcommand per enabled flag, the system one
\* first (none when both flags are false), and returns the union of the names
\* listed as a duplicate-free sequence in increasing code point order; a
\* failure of either subcommand is raised, no list is returned, and no
\* subcommand follows the failed one.
C18_UnionSortedOrFailure ==
    HelperDone("list_packages") =>
        LET out == lRet[1]
            n == Len(lCmds)
        IN  /\ n <= Len(FlagCommands)
            /\ \A i \in 1..n : lCmds[i].args = FlagCommands[i]
            /\ \A i \in 1..(n - 1) : lCmds[i].kind = ""
            /\ IF n > 0 /\ lCmds[n].kind # ""
               THEN /\ out.raised /\ out.kind = lCmds[n].kind
                    /\ out.value = <<>>
               ELSE /\ n = Len(FlagCommands)
                    /\ ~out.raised
                    /\ SeqRange(out.value) = NamesListed
                    /\ \A i, j \in DOMAIN out.value :
                          i < j => Rank(out.value[i]) < Rank(out.value[j])

\* C18 witness: both listings succeed, they share a package, and the result
\* puts an upper-case name before the lower-case ones.
C18_Witness ==
    /\ HelperDone("list_packages")
    /\ lOp[1].include_system /\ lOp[1].include_user
    /\ ~lRet[1].raised
    /\ Len(lOp[1].answers) = 2
    /\ Len(lOp[1].answers[1].stdout) + Len(lOp[1].answers[2].stdout) > Len(lRet[1].value)
    /\ Len(lRet[1].value) = 3
    /\ lRet[1].value[1] = "Com.b"

\* the futures the calling thread has taken from as_completed
Yielded == {t \in DOMAIN fut : fut[t].status = "yielded"}

\* C22: the progress callback of list_apps is invoked by the calling thread
\* only, as it takes a finished future from as_completed: once per package,
\* with that package's name, the counts 1, 2, ..., N in this order and the
\* total N; a package is reported after its query has ended, in the order the
\* futures are taken and not in list order, and whether its app was fetched or
\* dropped.
C22_CallbackOncePerPackageInOrder ==
    /\ []((ListOpIs("list_apps") /\ lOp[1].callback) =>
            /\ Len(cbLog) = completed
            /\ Len(cbLog) = Cardinality(Yielded)
            /\ \A i \in DOMAIN cbLog :
                  /\ cbLog[i].current = i
                  /\ cbLog[i].total = Len(pkg_list)
                  /\ \E t \in Yielded : pkg_list[t] = cbLog[i].package
            /\ \A i, j \in DOMAIN cbLog : i # j => cbLog[i].package # cbLog[j].package
            /\ AppsListed => {cbLog[i].package : i \in DOMAIN cbLog} = SeqRange(pkg_list))
    /\ [][cbLog' # cbLog =>
            /\ lpc = "pool" /\ lpc' \in {"pool", "draining"}
            /\ \E t \in DOMAIN fut :
                  /\ fut[t].status = "done" /\ fut'[t].status = "yielded"
                  /\ \A u \in DOMAIN fut \ {t} : fut'[u] = fut[u]
                  /\ cbLog' = Append(cbLog, [package |-> pkg_list[t],
                                              current |-> Len(cbLog) + 1,
                                              total |-> Len(pkg_list)])]_vars

\* C22 witness: three packages were reported, not in list order, and one of
\* the reported packages was dropped from the result.
C22_Witness ==
    /\ AppsListed /\ lOp[1].callback
    /\ Len(pkg_list) = 3 /\ Len(cbLog) = 3
    /\ cbLog[1].package = pkg_list[3]
    /\ cbLog[3].current = 3
    /\ Len(lRet[1].value) < 3

\* the first part of the first line of the text parse_du_output was given, if any
FirstPart == IF Unparsable(lOp[1].answers[1]) \/ lOp[1].answers[1] = <<>>
                  \/ Head(lOp[1].answers[1]) = <<>>
             THEN <<>> ELSE <<Head(lOp[1].answers[1])[1]>>

\* C23: parse_du_output never raises, and gives 0.0 for every text whose first
\* part is not a decimal number with an optional unit K, M, G or T: the empty
\* text, a part that starts with no digit, a part with several dots.
C23_ParseDuTotal ==
    HelperDone("parse_du_output") =>
        /\ ~lRet[1].raised
        /\ FirstPart = <<>> => lRet[1].value = <<0>>

\* C23 failing input: the first part is 1.2.3; parse_du_output raises ValueError.
C23_Witness ==
    /\ HelperDone("parse_du_output")
    /\ Unparsable(lOp[1].answers[1])
    /\ Head(lOp[1].answers[1])[1].num = "1.2.3"
    /\ lRet[1].raised /\ lRet[1].kind = "ValueError"

\* the steps a future may take: submitted, taken by a worker, ended, collected
FutureSteps ==
    {<<"queued", "running">>, <<"running", "done">>, <<"done", "yielded">>}

\* C28: in list_apps every package of the fetched list gets one future, whose
\* get_app_info query is started once and never again, whether it fails or
\* not; a queued query can start whenever a worker is free, whatever became of
\* the other queries, and on return every query has been run and collected.
C28_EachPackageQueriedOnce ==
    /\ []((ListOpIs("list_apps") /\ lpc \in {"pool", "draining", "finished"}
              /\ ListFetched) =>
            /\ DOMAIN fut = DOMAIN pkg_list
            /\ \A t, u \in DOMAIN pkg_list : t # u => pkg_list[t] # pkg_list[u]
            /\ \A t \in DOMAIN fut :
                  (fut[t].out # <<>>) = (fut[t].status \in {"done", "yielded"})
            /\ (lpc \in {"pool", "draining"} /\ Cardinality(Running(fut)) < MaxWorkers
                   /\ \E t \in DOMAIN fut : fut[t].status = "queued")
                  => ENABLED WorkerStart
            /\ AppsListed => \A t \in DOMAIN fut : fut[t].status = "yielded")
    /\ [][\A t \in DOMAIN fut :
              (t \in DOMAIN fut' /\ fut'[t] # fut[t]) =>
                  /\ <<fut[t].status, fut'[t].status>> \in FutureSteps
                  /\ fut[t].out # <<>> => fut'[t].out = fut[t].out]_vars

\* C28 witness: of three packages the query of the first failed; the other two
\* were queried all the same and are returned.
C28_Witness ==
    /\ AppsListed
    /\ Len(pkg_list) = 3
    /\ FailedQueries = {1}
    /\ Len(lRet[1].value) = 2

\* --------------------------------------------------------------------
\* Properties of the device directory
\* --------------------------------------------------------------------
LastOp(name) == dOp # <<>> /\ dOp[1].name = name
Finished(name) == LastOp(name) /\ dpc = "idle" /\ dRet # <<>>

\* a step that enters get_device_info
GdiEntered == dpc = "idle" /\ dOp' # <<>> /\ dOp'[1].name = "get_device_info"

FetchCmds == <<ListingArgs, GetpropArgs(1), GetpropArgs(2), GetpropArgs(3), GetpropArgs(4)>>

\* C7 (as claimed): a get_device_info(id) without force_refresh, entered after a
\* get_device_info(id) of a Ready device has returned and before any invalidation,
\* returns at once the record that call returned and issues no subcommand.
C7_SecondCallIssuesNothing ==
    [][ (GdiEntered /\ ~dOp'[1].force_refresh /\ known[dOp'[1].device_id] # <<>>)
            => /\ dpc' = "idle"
               /\ dCmds' = <<>>
               /\ dRet' = <<DirReturned(known[dOp'[1].device_id][1])>> ]_vars

\* C7 (amended): such a second call returns the first call's record at once and
\* issues no subcommand when that record has sdk_level > 0; when it has
\* sdk_level 0, and after invalidate_cache, the call goes to the bridge: its
\* first subcommand is the device listing, and when it returns a record for a
\* device listed Ready its subcommands were the listing and the four getprop
\* commands, in that order.
C7_CacheHitNeedsSdk ==
    /\ [][ GdiEntered =>
             LET id == dOp'[1].device_id
             IN  /\ (~dOp'[1].force_refresh /\ known[id] # <<>> /\ known[id][1].sdk_level > 0)
                       => /\ dpc' = "idle"
                          /\ dCmds' = <<>>
                          /\ dRet' = <<DirReturned(known[id][1])>>
                 /\ (known[id] = <<>> \/ known[id][1].sdk_level <= 0)
                       => (dpc' = "gdi_list" /\ dRet' = <<>> /\ dCmds' = <<>>) ]_vars
    /\ [](LastOp("get_device_info") =>
             /\ dpc = "gdi_list" => dCmds = <<>>
             /\ dpc = "gdi_prop" => dCmds = SubSeq(FetchCmds, 1, Len(dCmds))
             /\ (dpc = "idle" /\ dCmds # <<>>) =>
                   /\ dCmds[1] = ListingArgs
                   /\ (dRet # <<>> /\ ~dRet[1].raised /\ IsReady(dRet[1].value[1]))
                         => dCmds = FetchCmds)

\* C7 witness: a call without force_refresh that was answered from the cache with
\* the record the previous call returned.
C7_Witness ==
    /\ Finished("get_device_info")
    /\ ~dOp[1].force_refresh
    /\ dCmds = <<>>
    /\ ~dRet[1].raised
    /\ dRet[1].value = known[dOp[1].device_id]
    /\ dRet[1].value[1].sdk_level > 0

\* C8: select_device without an id, on a listing it obtained: no Ready row gives
\* DeviceNotFound; exactly one gives that device; two or more give DeviceNotFound
\* whose message holds the id of every Ready row.  A row that is not Ready is
\* neither returned nor named.
C8_SelectNeverGuesses ==
    (Finished("select_device") /\ ~Truthy(dOp[1].device_id) /\ dListed # <<>>) =>
        LET rows == dListed[1]
            ready == {i \in DOMAIN rows : rows[i].state = "device"}
            out == dRet[1]
        IN  /\ Cardinality(ready) = 0 => (out.raised /\ out.kind = "DeviceNotFound")
            /\ Cardinality(ready) = 1 =>
                  /\ ~out.raised
                  /\ \A i \in ready : out.value[1] = BasicDevice(rows[i])
            /\ Cardinality(ready) >= 2 =>
                  /\ out.raised /\ out.kind = "DeviceNotFound"
                  /\ \A i \in ready : Contains(out.msg, rows[i].device_id)
            /\ \A i \in DOMAIN rows \ ready :
                  /\ ~Contains(out.msg, rows[i].device_id)
                  /\ ~out.raised => out.value[1].device_id # rows[i].device_id

\* C8 witness: a listing with two Ready devices, refused with both ids named.
C8_Witness ==
    /\ Finished("select_device")
    /\ dOp[1].device_id = None
    /\ dListed # <<>>
    /\ Len(dListed[1]) = 2
    /\ \A i \in DOMAIN dListed[1] : dListed[1][i].state = "device"
    /\ dRet[1].raised
    /\ \A i \in DOMAIN dListed[1] : Contains(dRet[1].msg, dListed[1][i].device_id)

\* get_device_info has ended after querying properties: the device was listed Ready
PropsQueried == Finished("get_device_info") /\ Len(dRuns) >= 2

Absent == ~dOp[1].attached

\* no subcommand of the finished operation failed
NoRunFailed == \A i \in DOMAIN dRuns : dRuns[i] = ""

RowsOf(id) == SelectSeq(dListed[1], LAMBDA row : row.device_id = id)

\* C16: validate_device(id) issues the device listing on every call and returns
\* the device built from the row of id exactly when that fresh listing has id
\* in state Ready; when id is absent or not Ready it raises DeviceNotFound.
\* The cache is neither consulted (the result never depends on it) nor
\* modified.
C16_ValidateReListsAndLeavesCache ==
    /\ [](Finished("validate_device") =>
            LET id == dOp[1].device_id
            IN  /\ dCmds = <<ListingArgs>>
                /\ dListed = <<>> => (dRet[1].raised /\ dRet[1].kind = dRuns[1])
                /\ dListed # <<>> =>
                      IF RowsOf(id) # <<>> /\ RowsOf(id)[1].state = "device"
                      THEN /\ dRet = <<DirReturned(BasicDevice(RowsOf(id)[1]))>>
                           /\ dRet[1].value[1].device_id = id
                           /\ dRet[1].value[1].sdk_level = 0
                      ELSE dRet = <<DirRaised("DeviceNotFound", DeviceNotFoundMsg(<<id>>))>>)
    /\ [][(dOp' # <<>> /\ dOp'[1].name = "validate_device")
              => device_cache' = device_cache]_vars

\* C16 witness: the cache holds a full record of a Ready device and
\* validate_device returns the basic record of the fresh row instead.
C16_Witness ==
    /\ Finished("validate_device")
    /\ ~dRet[1].raised
    /\ dOp[1].device_id \in QueryIds
    /\ device_cache[dOp[1].device_id] # <<>>
    /\ device_cache[dOp[1].device_id][1].sdk_level > 0
    /\ device_cache[dOp[1].device_id][1].state = "device"
    /\ dRet[1].value[1] # device_cache[dOp[1].device_id][1]

\* the cache entry list_devices may reuse for a row: <<>> or <<entry>>
Reusable(row) ==
    IF /\ dOp[1].use_cache
       /\ row.device_id \in QueryIds
       /\ device_cache[row.device_id] # <<>>
       /\ device_cache[row.device_id][1].state = row.state
    THEN device_cache[row.device_id]
    ELSE <<>>

\* C17: list_devices returns one device per parsed row, in listing order, each
\* with the state observed in that listing; with use_cache the cached record is
\* returned for a row only when the cache has an entry for the id whose state
\* equals the observed one; otherwise, and always without use_cache, the
\* device is built from the row.
C17_OnePerRowFreshState ==
    (Finished("list_devices") /\ dListed # <<>>) =>
        LET rows == dListed[1]
            out == dRet[1].value[1]
        IN  /\ ~dRet[1].raised
            /\ Len(out) = Len(rows)
            /\ \A i \in DOMAIN rows :
                  /\ out[i].device_id = rows[i].device_id
                  /\ out[i].state = rows[i].state
                  /\ IF Reusable(rows[i]) # <<>>
                     THEN out[i] = Reusable(rows[i])[1]
                     ELSE out[i] = BasicDevice(rows[i])

\* C17 witness: with use_cache, one row is answered from the cache and another
\* row, whose cached state differs from the observed one, is built afresh.
C17_Witness ==
    /\ Finished("list_devices") /\ dListed # <<>> /\ dOp[1].use_cache
    /\ \E i, j \in DOMAIN dListed[1] :
          /\ Reusable(dListed[1][i]) # <<>>
          /\ dRet[1].value[1][i].sdk_level > 0
          /\ dListed[1][j].device_id \in QueryIds
          /\ device_cache[dListed[1][j].device_id] # <<>>
          /\ device_cache[dListed[1][j].device_id][1].state # dListed[1][j].state
          /\ dRet[1].value[1][j] = BasicDevice(dListed[1][j])

\* a step that is a call of invalidate_cache
Invalidating == dpc = "idle" /\ dOp' # <<>> /\ dOp'[1].name = "invalidate_cache"

\* C21: invalidate_cache(id) empties the cache entry of id and leaves every
\* other entry as it was; invalidate_cache without an id (None, or the empty
\* string) empties every entry; either call returns normally and issues no
\* subcommand, whether or not the entries existed, so a repeated call changes
\* nothing more.
C21_InvalidateRemovesOnlyItsEntry ==
    [][Invalidating =>
          LET id == dOp'[1].device_id
          IN  /\ dpc' = "idle" /\ dRet' # <<>> /\ ~dRet'[1].raised /\ dCmds' = <<>>
              /\ \A o \in QueryIds :
                    device_cache'[o] = IF id \in {None, ""} \/ o = id THEN <<>>
                                       ELSE device_cache[o]]_vars

\* C21 witness: invalidate_cache(id) has returned, the entry of id is gone and
\* the entry of another device is still there.
C21_Witness ==
    /\ Finished("invalidate_cache")
    /\ dOp[1].device_id \in QueryIds
    /\ device_cache[dOp[1].device_id] = <<>>
    /\ \E o \in QueryIds : device_cache[o] # <<>>

\* C24: the cache changes only when get_device_info stores the record it is
\* about to return, as the entry of the queried device, and when
\* invalidate_cache removes entries; list_devices (with or without use_cache),
\* get_ready_devices, validate_device and select_device never change it, and
\* no entry disappears because its device is listed in another state or not
\* listed any more.
C24_CacheChangesOnlyByFetchAndInvalidate ==
    [][device_cache' # device_cache =>
          \/ /\ Invalidating
             /\ \A o \in QueryIds : device_cache'[o] \in {<<>>, device_cache[o]}
          \/ /\ dOp' = dOp /\ dOp[1].name = "get_device_info"
             /\ dpc = "gdi_prop" /\ dpc' = "idle"
             /\ ~dRet'[1].raised
             /\ device_cache'[dOp[1].device_id] = dRet'[1].value
             /\ \A o \in QueryIds \ {dOp[1].device_id} :
                   device_cache'[o] = device_cache[o]]_vars

\* C24 witness: list_devices with use_cache has listed a cached device as
\* offline and another cached device not at all; both entries are still there.
C24_Witness ==
    /\ Finished("list_devices") /\ dOp[1].use_cache /\ dListed # <<>>
    /\ \A o \in QueryIds : device_cache[o] # <<>>
    /\ \E o \in QueryIds : ~\E i \in DOMAIN dListed[1] : dListed[1][i].device_id = o
    /\ \E i \in DOMAIN dListed[1] :
          /\ dListed[1][i].device_id \in QueryIds
          /\ dListed[1][i].state = "offline"

\* the row of the queried device in the listing get_device_info took is not Ready
ListedNotReady ==
    /\ dListed # <<>> /\ dListed[1] # <<>>
    /\ dListed[1][1].state # "device"

\* C25: when get_device_info finds the device listed in a state other than
\* Ready it returns the record built from the listing row, having issued the
\* listing and no property query, and leaves the cache as it was; a property
\* query is only ever issued for a device the same call observed Ready.
C25_NotReadyShortCircuits ==
    /\ []((Finished("get_device_info") /\ ListedNotReady) =>
            /\ dCmds = <<ListingArgs>>
            /\ dRet = <<DirReturned(BasicDevice(dListed[1][1]))>>)
    /\ []((LastOp("get_device_info") /\ Len(dCmds) > 1) =>
            /\ dListed # <<>> /\ dListed[1] # <<>>
            /\ dListed[1][1].state = "device")
    /\ [][(LastOp("get_device_info") /\ dpc = "gdi_list" /\ dpc' = "idle")
              => device_cache' = device_cache]_vars

\* C25 witness: the cache holds a full record of the device, a forced refresh
\* finds it offline and returns the basic record; the cache entry is kept.
C25_Witness ==
    /\ Finished("get_device_info") /\ ListedNotReady
    /\ dOp[1].force_refresh
    /\ device_cache[dOp[1].device_id] # <<>>
    /\ device_cache[dOp[1].device_id][1].sdk_level > 0
    /\ ~dRet[1].raised
    /\ dRet[1].value[1].state = "offline"
    /\ dRet[1].value[1].sdk_level = 0

\* the finished get_device_info went through the property fetch and returned
Fetched ==
    /\ Finished("get_device_info") /\ ~dRet[1].raised
    /\ Len(dCmds) > 1

\* C26: a get_device_info call that performs the property fetch and returns
\* has issued the listing and the four property queries and has stored the
\* record it returns as the cache entry of the device, whatever the entry was
\* before; a call with force_refresh never ends without having issued the
\* listing first.
C26_FetchedRecordIsCached ==
    /\ [](Fetched =>
            /\ dCmds = FetchCmds
            /\ device_cache[dOp[1].device_id] = dRet[1].value
            /\ dRet[1].value[1].device_id = dOp[1].device_id)
    /\ []((Finished("get_device_info") /\ dOp[1].force_refresh) =>
            (dCmds # <<>> /\ dCmds[1] = ListingArgs))
    /\ [][(LastOp("get_device_info") /\ dpc = "gdi_prop" /\ dpc' = "idle"
              /\ ~dRet'[1].raised)
              => device_cache'[dOp[1].device_id] = dRet'[1].value]_vars

\* C26 witness: a forced refresh of a device went through the property fetch,
\* the sdk query failed, and the record with sdk_level 0 is the cache entry.
C26_Witness ==
    /\ Fetched /\ dOp[1].force_refresh
    /\ dRuns[5] # ""
    /\ dRet[1].value[1].sdk_level = 0
    /\ device_cache[dOp[1].device_id] = dRet[1].value

\* ====================================================================
\* The front end: navigation, selection, confirmation and _execute_action
\* ====================================================================
MaxExecutions == 2
MaxListExecutions == 1

UiDevice == "emu-5554"

\* What the bridge may answer to an enable/disable command of the front end.
UiProcs ==
    { Proc(FALSE, 0, <<"Package", "new state", "\n">>, <<>>),
      Proc(FALSE, 1, <<>>, <<"Failure", "\n">>),
      Proc(FALSE, 1, <<>>, <<"error:", "Device", "OFFLINE">>) }

\* list(self.state.selected_packages): the elements of the set in some order
ListOf(S) ==
    {q \in SeqsUpTo(S, Cardinality(S)) :
        Len(q) = Cardinality(S) /\ \A i, j \in DOMAIN q : i # j => q[i] # q[j]}

\* a thread running _execute_action: its position, its locals packages, device_id,
\* action and the index of the loop, the commands it has issued, the action that
\* was pending when the confirm key started it, and whether it wrote a report
ExecThread(pc, packages, device_id, action, i, cmds, confirmed) ==
    [pc |-> pc, packages |-> packages, device_id |-> device_id, action |-> action,
     i |-> i, cmds |-> cmds, confirmed |-> confirmed, reported |-> FALSE]

\* FilterMode and the texts typed into the filter
FilterModes == {"ALL", "USER", "SYSTEM", "ENABLED", "DISABLED"}
FilterTexts == {"", "b"}

\* q in a.package_name.lower()
InName(q, package_name) == q = "b" /\ package_name = "com.b"

\* the mode filter of UIState.filtered_apps
ModePasses(mode, a) ==
    CASE mode = "ENABLED" -> a.is_enabled
      [] mode = "DISABLED" -> ~a.is_enabled
      [] mode = "USER" -> ~a.is_system
      [] mode = "SYSTEM" -> a.is_system
      [] OTHER -> TRUE

\* UIState.filtered_apps
FilteredApps(all_apps, text, mode) ==
    SelectSeq(all_apps, LAMBDA a : (text = "" \/ InName(text, a.package_name))
                                   /\ ModePasses(mode, a))

filtered == FilteredApps(state_apps, filter_text, filter_mode)

\* what list_apps returns for the device: com.a is a third-party app, com.b a
\* system app, each enabled or disabled as the device has it
LoadedApps(enabled) ==
    <<[package_name |-> "com.a", is_enabled |-> enabled["com.a"], is_system |-> FALSE],
      [package_name |-> "com.b", is_enabled |-> enabled["com.b"], is_system |-> TRUE]>>

Min(a, b) == IF a < b THEN a ELSE b
Max(a, b) == IF a > b THEN a ELSE b

selection == <<selected_device, selected_packages>>
execution == <<execution_results, execution_progress, execution_total, execution_current>>
threads == <<xThreads, reports, device_enabled>>

\* _select_device and _load_apps: the app list is shown, or the error view
SelectDevice ==
    /\ ~exited /\ view = "LOADING" /\ selected_device = <<>>
    /\ selected_device' = <<UiDevice>>
    /\ \/ view' = "APP_LIST" /\ state_apps' = LoadedApps(device_enabled)
       \/ view' = "ERROR" /\ UNCHANGED state_apps
    /\ UNCHANGED <<selected_packages, pending_action, execution, threads, exited>>
    /\ UNCHANGED <<app_cursor, filter_text, filter_mode, filter_visible>>
    /\ UNCHANGED notUi

\* keys j and down: move_down
MoveDown ==
    /\ ~exited /\ ~filter_visible /\ view = "APP_LIST"
    /\ app_cursor' = Min(app_cursor + 1, Max(0, Len(filtered) - 1))
    /\ UNCHANGED <<view, selection, pending_action, execution, threads, exited>>
    /\ UNCHANGED <<state_apps, filter_text, filter_mode, filter_visible>>
    /\ UNCHANGED notUi

\* keys k and up: move_up
MoveUp ==
    /\ ~exited /\ ~filter_visible /\ view = "APP_LIST"
    /\ app_cursor' = Max(app_cursor - 1, 0)
    /\ UNCHANGED <<view, selection, pending_action, execution, threads, exited>>
    /\ UNCHANGED <<state_apps, filter_text, filter_mode, filter_visible>>
    /\ UNCHANGED notUi

\* key g: go_top
GoTop ==
    /\ ~exited /\ ~filter_visible
    /\ app_cursor' = 0
    /\ UNCHANGED <<view, selection, pending_action, execution, threads, exited>>
    /\ UNCHANGED <<state_apps, filter_text, filter_mode, filter_visible>>
    /\ UNCHANGED notUi

\* key G: go_bottom
GoBottom ==
    /\ ~exited /\ ~filter_visible /\ view = "APP_LIST"
    /\ app_cursor' = Max(0, Len(filtered) - 1)
    /\ UNCHANGED <<view, selection, pending_action, execution, threads, exited>>
    /\ UNCHANGED <<state_apps, filter_text, filter_mode, filter_visible>>
    /\ UNCHANGED notUi

\* keys 1 to 5: tab_all, tab_user, tab_system, tab_enabled, tab_disabled
TabFilter ==
    /\ ~exited /\ ~filter_visible /\ view = "APP_LIST"
    /\ \E mode \in FilterModes : filter_mode' = mode
    /\ app_cursor' = 0
    /\ UNCHANGED <<view, selection, pending_action, execution, threads, exited>>
    /\ UNCHANGED <<state_apps, filter_text, filter_visible>>
    /\ UNCHANGED notUi

\* key /: start_filter
StartFilter ==
    /\ ~exited /\ ~filter_visible /\ view = "APP_LIST"
    /\ filter_visible' = TRUE
    /\ UNCHANGED <<view, selection, pending_action, execution, threads, exited>>
    /\ UNCHANGED <<state_apps, app_cursor, filter_text, filter_mode>>
    /\ UNCHANGED notUi

\* _on_filter_changed: the text of the filter input was edited
FilterChanged ==
    /\ ~exited /\ filter_visible
    /\ \E text \in FilterTexts \ {filter_text} : filter_text' = text
    /\ app_cursor' = 0
    /\ UNCHANGED <<view, selection, pending_action, execution, threads, exited>>
    /\ UNCHANGED <<state_apps, filter_mode, filter_visible>>
    /\ UNCHANGED notUi

\* key escape: cancel_filter
CancelFilter ==
    /\ ~exited /\ filter_visible
    /\ filter_text' = ""
    /\ filter_visible' = FALSE
    /\ UNCHANGED <<view, selection, pending_action, execution, threads, exited>>
    /\ UNCHANGED <<state_apps, app_cursor, filter_mode>>
    /\ UNCHANGED notUi

\* key space: toggle_selection; filtered[self.state.app_cursor] raises IndexError
\* when the cursor is past the end of the list, and nothing is toggled
ToggleSelection ==
    /\ ~exited /\ ~filter_visible /\ view = "APP_LIST"
    /\ filtered # <<>>
    /\ app_cursor < Len(filtered)
    /\ LET pkg == filtered[app_cursor + 1].package_name
       IN  selected_packages' = IF pkg \in selected_packages
                                THEN selected_packages \ {pkg}
                                ELSE selected_packages \cup {pkg}
    /\ UNCHANGED <<view, selected_device, pending_action, execution, threads, exited>>
    /\ UNCHANGED <<state_apps, app_cursor, filter_text, filter_mode, filter_visible>>
    /\ UNCHANGED notUi

\* key a: select_all
SelectAll ==
    /\ ~exited /\ ~filter_visible /\ view = "APP_LIST"
    /\ selected_packages' =
          selected_packages \cup {filtered[i].package_name : i \in DOMAIN filtered}
    /\ UNCHANGED <<view, selected_device, pending_action, execution, threads, exited>>
    /\ UNCHANGED <<state_apps, app_cursor, filter_text, filter_mode, filter_visible>>
    /\ UNCHANGED notUi

\* key n: select_none
SelectNone ==
    /\ ~exited /\ ~filter_visible /\ view = "APP_LIST"
    /\ selected_packages' = {}
    /\ UNCHANGED <<view, selected_device, pending_action, execution, threads, exited>>
    /\ UNCHANGED <<state_apps, app_cursor, filter_text, filter_mode, filter_visible>>
    /\ UNCHANGED notUi

\* key D: disable_action
DisableAction ==
    /\ ~exited /\ ~filter_visible /\ view = "APP_LIST" /\ selected_packages # {}
    /\ pending_action' = "DISABLE"
    /\ view' = "CONFIRM"
    /\ UNCHANGED <<selection, execution, threads, exited>>
    /\ UNCHANGED <<state_apps, app_cursor, filter_text, filter_mode, filter_visible>>
    /\ UNCHANGED notUi

\* key E: enable_action
EnableAction ==
    /\ ~exited /\ ~filter_visible /\ view = "APP_LIST" /\ selected_packages # {}
    /\ pending_action' = "ENABLE"
    /\ view' = "CONFIRM"
    /\ UNCHANGED <<selection, execution, threads, exited>>
    /\ UNCHANGED <<state_apps, app_cursor, filter_text, filter_mode, filter_visible>>
    /\ UNCHANGED notUi

\* key y: confirm_yes starts a thread that will run _execute_action
ConfirmYes ==
    /\ ~exited /\ view = "CONFIRM"
    /\ Len(xThreads) < MaxExecutions
    /\ xThreads' = Append(xThreads,
                          ExecThread("guard", <<>>, "", None, 1, <<>>, pending_action))
    /\ UNCHANGED <<uiState, reports, device_enabled, exited>>
    /\ UNCHANGED <<state_apps, app_cursor, filter_text, filter_mode, filter_visible>>
    /\ UNCHANGED notUi

\* key q: quit_or_cancel
QuitOrCancel ==
    /\ ~exited
    /\ IF filter_visible
       THEN filter_visible' = FALSE /\ UNCHANGED <<view, pending_action, exited>>
       ELSE IF view \in {"CONFIRM", "RESULT"}
       THEN /\ view' = "APP_LIST" /\ pending_action' = None
            /\ UNCHANGED <<exited, filter_visible>>
       ELSE exited' = TRUE /\ UNCHANGED <<view, pending_action, filter_visible>>
    /\ UNCHANGED <<selection, execution, threads>>
    /\ UNCHANGED <<state_apps, app_cursor, filter_text, filter_mode>>
    /\ UNCHANGED notUi

\* key enter: select_item with the filter input open or in the result view
SelectItem ==
    /\ ~exited
    /\ filter_visible \/ view = "RESULT"
    /\ IF filter_visible
       THEN filter_visible' = FALSE /\ UNCHANGED <<view, pending_action>>
       ELSE view' = "APP_LIST" /\ pending_action' = None /\ UNCHANGED filter_visible
    /\ UNCHANGED <<selection, execution, threads, exited>>
    /\ UNCHANGED <<state_apps, app_cursor, filter_text, filter_mode>>
    /\ UNCHANGED notUi

\* _execute_action, line 877: the guard
ExecGuard ==
    /\ ~exited
    /\ \E k \in DOMAIN xThreads :
          /\ xThreads[k].pc = "guard"
          /\ xThreads' = [xThreads EXCEPT ![k].pc =
                              IF selected_device = <<>> \/ pending_action = None
                              THEN "returned" ELSE "begin"]
    /\ UNCHANGED <<uiState, reports, device_enabled, exited>>
    /\ UNCHANGED <<state_apps, app_cursor, filter_text, filter_mode, filter_visible>>
    /\ UNCHANGED notUi

\* _execute_action, lines 880-888
ExecBegin ==
    /\ ~exited
    /\ \E k \in DOMAIN xThreads :
          /\ xThreads[k].pc = "begin"
          /\ \E packages \in ListOf(selected_packages) :
                /\ xThreads' = [xThreads EXCEPT ![k].pc = "read", ![k].packages = packages]
                /\ execution_total' = Len(packages)
    /\ view' = "EXECUTING"
    /\ execution_results' = <<>>
    /\ execution_progress' = 0
    /\ execution_current' = ""
    /\ UNCHANGED <<selection, pending_action, reports, device_enabled, exited>>
    /\ UNCHANGED <<state_apps, app_cursor, filter_text, filter_mode, filter_visible>>
    /\ UNCHANGED notUi

\* _execute_action, lines 890-891
ExecRead ==
    /\ ~exited
    /\ \E k \in DOMAIN xThreads :
          /\ xThreads[k].pc = "read"
          /\ xThreads' = [xThreads EXCEPT ![k].pc = "loop",
                                           ![k].device_id = selected_device[1],
                                           ![k].action = pending_action]
    /\ UNCHANGED <<uiState, reports, device_enabled, exited>>
    /\ UNCHANGED <<state_apps, app_cursor, filter_text, filter_mode, filter_visible>>
    /\ UNCHANGED notUi

\* _execute_action, lines 893-910: one iteration of the loop.  disable_app and
\* enable_app are called as (device_id, pkg), so user_id is its default 0; a
\* failure that escapes them is caught (except ADBError) and recorded.  A command
\* that succeeded has changed the package on the device.  procs is what the
\* bridge may answer.
ExecPackageWith(procs) ==
    /\ ~exited
    /\ \E k \in DOMAIN xThreads :
          LET t == xThreads[k]
              pkg == t.packages[t.i]
              user_id == 0
              enable == t.action # "DISABLE"
          IN  /\ t.pc = "loop" /\ t.i <= Len(t.packages)
              /\ \E proc \in procs :
                    LET res == SetAppEnabled(enable, t.device_id, pkg, user_id, proc)
                        r == Run(ActionArgs(enable, pkg, user_id), PM_TIMEOUT,
                                 t.device_id, proc)
                        entry == IF res.raised
                                 THEN [package |-> pkg, success |-> FALSE,
                                       error |-> <<res.msg>>]
                                 ELSE [package |-> pkg, success |-> res.success,
                                       error |-> IF res.success THEN <<>> ELSE res.error]
                    IN  /\ execution_results' = Append(execution_results, entry)
                        /\ xThreads' = [xThreads EXCEPT
                              ![k].i = t.i + 1,
                              ![k].cmds = Append(t.cmds,
                                                 [args |-> ActionArgs(enable, pkg, user_id),
                                                  kind |-> RunKind(r)])]
                        /\ device_enabled' = IF ~r.raised
                                             THEN [device_enabled EXCEPT ![pkg] = enable]
                                             ELSE device_enabled
              /\ execution_current' = pkg
    /\ execution_progress' = execution_progress + 1
    /\ UNCHANGED <<view, selection, pending_action, execution_total, reports, exited>>
    /\ UNCHANGED <<state_apps, app_cursor, filter_text, filter_mode, filter_visible>>
    /\ UNCHANGED notUi

ExecPackage == ExecPackageWith(UiProcs)

\* the bridge answers every command of the front end with success
UiSucceeds == {p \in UiProcs : p.returncode = 0}

\* _write_report returns early without a device or a pending action
WritesReport == selected_device # <<>> /\ pending_action # None

\* _execute_action, lines 912-918: the report, the reload of the app list (a
\* failure of list_apps is suppressed and leaves the list as it was), the
\* result view
ExecFinish ==
    /\ ~exited
    /\ \E k \in DOMAIN xThreads :
          /\ xThreads[k].pc = "loop" /\ xThreads[k].i > Len(xThreads[k].packages)
          /\ xThreads' = [xThreads EXCEPT ![k].pc = "done", ![k].reported = WritesReport]
    /\ reports' = IF WritesReport
                  THEN Append(reports, [device |-> selected_device[1],
                                        action |-> pending_action,
                                        results |-> execution_results])
                  ELSE reports
    /\ state_apps' \in {LoadedApps(device_enabled), state_apps}
    /\ selected_packages' = {}
    /\ view' = "RESULT"
    /\ UNCHANGED <<selected_device, pending_action, execution, device_enabled, exited>>
    /\ UNCHANGED <<app_cursor, filter_text, filter_mode, filter_visible>>
    /\ UNCHANGED notUi

\* Every key of the app list, around at most MaxListExecutions bulk actions.
InitUi == RunIdle /\ BulkIdle /\ DirIdle /\ ListIdle /\ UiIdle
NextUi ==
    \/ SelectDevice
    \/ MoveDown
    \/ MoveUp
    \/ GoTop
    \/ GoBottom
    \/ TabFilter
    \/ StartFilter
    \/ FilterChanged
    \/ CancelFilter
    \/ ToggleSelection
    \/ SelectAll
    \/ SelectNone
    \/ DisableAction
    \/ EnableAction
    \/ (ConfirmYes /\ Len(xThreads) < MaxListExecutions)
    \/ QuitOrCancel
    \/ SelectItem
    \/ ExecGuard
    \/ ExecBegin
    \/ ExecRead
    \/ ExecPackage
    \/ ExecFinish
SpecUI == InitUi /\ [][NextUi]_vars

\* The confirm key pressed up to MaxExecutions times, with the cursor on the
\* first app, the filter left alone and a bridge whose commands succeed.
InitConfirm == RunIdle /\ BulkIdle /\ DirIdle /\ ListIdle /\ UiIdle
NextConfirm ==
    \/ SelectDevice
    \/ ToggleSelection
    \/ SelectAll
    \/ SelectNone
    \/ DisableAction
    \/ EnableAction
    \/ ConfirmYes
    \/ QuitOrCancel
    \/ SelectItem
    \/ ExecGuard
    \/ ExecBegin
    \/ ExecRead
    \/ ExecPackageWith(UiSucceeds)
    \/ ExecFinish
SpecConfirm == InitConfirm /\ [][NextConfirm]_vars

\* ---------------------------------------------- properties of the front end
\* an execution that ran to the result view
ExecutionDone(t) == t.pc = "done"

\* the profiles of the device: the owner and a work profile
DeviceProfiles == UserIds

\* C29: once an execution has finished, the confirmed action has been issued for
\* each selected package on every user profile of the device, not only on
\* profile 0.
C29_EveryProfileTargeted ==
    \A k \in DOMAIN xThreads :
        ExecutionDone(xThreads[k]) =>
            \A i \in DOMAIN xThreads[k].packages : \A u \in DeviceProfiles :
                \E c \in DOMAIN xThreads[k].cmds :
                    xThreads[k].cmds[c].args
                        = ActionArgs(xThreads[k].action # "DISABLE",
                                     xThreads[k].packages[i], u)

\* C29 happens: an execution of two packages has finished and has issued exactly
\* one command per package, each for profile 0.
C29_Witness ==
    \E k \in DOMAIN xThreads :
        /\ ExecutionDone(xThreads[k])
        /\ Len(xThreads[k].packages) = 2
        /\ Len(xThreads[k].cmds) = 2
        /\ \A c \in DOMAIN xThreads[k].cmds :
              xThreads[k].cmds[c].args
                  = ActionArgs(xThreads[k].action # "DISABLE", xThreads[k].packages[c], 0)

\* the command was answered by a device that is gone
DeviceGone(cmd) == cmd.kind = "DeviceDisconnected"

\* C30: within one execution, a command that failed with DeviceDisconnected is
\* the last command issued: no later package is processed.
C30_DisconnectStopsExecution ==
    \A k \in DOMAIN xThreads :
        \A c \in DOMAIN xThreads[k].cmds :
            DeviceGone(xThreads[k].cmds[c]) => c = Len(xThreads[k].cmds)

\* C30 happens: the first package of an execution met DeviceDisconnected, the
\* second package was processed all the same, and the result view shows both.
C30_Witness ==
    \E k \in DOMAIN xThreads :
        /\ ExecutionDone(xThreads[k])
        /\ Len(xThreads[k].cmds) = 2
        /\ DeviceGone(xThreads[k].cmds[1])
        /\ view = "RESULT"
        /\ Len(execution_results) = 2
        /\ ~execution_results[1].success
        /\ execution_results[2].package = xThreads[k].packages[2]

\* an execution thread that was started and has neither returned nor finished
Executing(t) == t.pc \in {"guard", "begin", "read", "loop"}

\* C35: at most one execution thread is in progress at any time: none is started
\* while an earlier one is running or waits to switch the view to Executing.
C35_OneExecutionAtATime ==
    Cardinality({k \in DOMAIN xThreads : Executing(xThreads[k])}) <= 1

\* C35 failing input: the confirm key was pressed twice in the confirm view; both
\* threads are in the loop, each has issued a command, and the shared results
\* list, emptied by the second thread, holds fewer results than commands issued.
C35_Witness ==
    /\ Len(xThreads) = 2
    /\ \A k \in DOMAIN xThreads :
          xThreads[k].pc = "loop" /\ Len(xThreads[k].cmds) >= 1
    /\ Len(execution_results) < Len(xThreads[1].cmds) + Len(xThreads[2].cmds)

\* C36: every command of an execution carries the action that was pending when
\* the confirm key was pressed, and every execution that issued commands and ran
\* to its end wrote a report.
C36_ConfirmedActionAndReport ==
    \A k \in DOMAIN xThreads :
        /\ \A c \in DOMAIN xThreads[k].cmds :
              xThreads[k].cmds[c].args
                  = ActionArgs(xThreads[k].confirmed = "ENABLE", xThreads[k].packages[c], 0)
        /\ (ExecutionDone(xThreads[k]) /\ xThreads[k].cmds # <<>>) => xThreads[k].reported

\* C36 failing input: Disable was confirmed, the cancel key was pressed after
\* the thread had passed its guard, and the thread ran to its end: it issued an
\* enable command and wrote no report.
C36_Witness ==
    \E k \in DOMAIN xThreads :
        /\ ExecutionDone(xThreads[k])
        /\ xThreads[k].confirmed = "DISABLE"
        /\ xThreads[k].action = None
        /\ xThreads[k].cmds # <<>>
        /\ xThreads[k].cmds[1].args = ActionArgs(TRUE, xThreads[k].packages[1], 0)
        /\ ~xThreads[k].reported
        /\ reports = <<>>

\* C31: the view follows the bulk-operation state machine: the confirm view is
\* entered only from the app list with a non-empty selection and a pending
\* action; the executing view only from the confirm view; the result view only
\* from the executing view, with one result per selected package recorded and a
\* report written by the same step; and the app list is re-entered only from the
\* confirm view or the result view (it is first entered from the loading view).
C31_BulkStateMachine ==
    [][/\ (view' = "CONFIRM" /\ view # "CONFIRM") =>
              (view = "APP_LIST" /\ selected_packages' # {} /\ pending_action' # None)
       /\ (view' = "EXECUTING" /\ view # "EXECUTING") => view = "CONFIRM"
       /\ (view' = "RESULT" /\ view # "RESULT") =>
              /\ view = "EXECUTING"
              /\ Len(execution_results) = Cardinality(selected_packages)
              /\ Len(reports') = Len(reports) + 1
       /\ (view' = "APP_LIST" /\ view # "APP_LIST") =>
              view \in {"LOADING", "CONFIRM", "RESULT"}]_vars

\* C31 failing input: the confirm key, then the cancel key before the thread
\* switched the view: the executing view was entered from the app list, with no
\* pending action, and the result view is shown without a report.
C31_Witness ==
    /\ view = "RESULT" /\ pending_action = None /\ reports = <<>>
    /\ Len(xThreads) = 1 /\ ExecutionDone(xThreads[1])
    /\ xThreads[1].confirmed # None
    /\ Len(execution_results) = Len(xThreads[1].packages)
    /\ execution_results # <<>>

\* C37: whenever the app list is shown and the filtered list is not empty, the
\* cursor is an index into it.
C37_CursorInRange ==
    (view = "APP_LIST" /\ filtered # <<>>) => app_cursor < Len(filtered)

\* C37 failing input: on the Enabled tab with the cursor on the second app, that
\* app was disabled by a bulk action; after the reload and the return to the app
\* list one app is left and the cursor is past it, so the space key would index
\* past the end of the list.
C37_Witness ==
    /\ view = "APP_LIST" /\ filter_mode = "ENABLED" /\ ~filter_visible
    /\ Len(filtered) = 1 /\ app_cursor = 1
    /\ \E k \in DOMAIN xThreads : ExecutionDone(xThreads[k])
    /\ ~ENABLED ToggleSelection

\* ------------------------------------- more properties of the device directory
\* get_device_info is running or has just ended
InGdi == dOp # <<>> /\ dOp[1].name = "get_device_info"

\* C32: no step of a get_device_info call that has not returned a record changes
\* the cache, so a call that raises (DeviceNotFound for a device absent from the
\* listing, or a failure escaping the listing or a property query) leaves the
\* cache exactly as it was when the call was entered; a forced refresh of a
\* vanished device keeps that device's entry.
C32_RaisingCallLeavesCache ==
    [][(dOp' # <<>> /\ dOp'[1].name = "get_device_info"
            /\ (dRet' = <<>> \/ dRet'[1].raised))
          => device_cache' = device_cache]_vars

\* C32 happens: a forced refresh of a cached device that is no longer listed has
\* raised DeviceNotFound and the entry is still in the cache.
C32_Witness ==
    /\ InGdi /\ dpc = "idle" /\ dOp[1].force_refresh /\ ~dOp[1].attached
    /\ dRet # <<>> /\ dRet[1].raised /\ dRet[1].kind = "DeviceNotFound"
    /\ device_cache[dOp[1].device_id] # <<>>

\* C33: every cache entry is a record of the device it is stored under, and that
\* device was Ready when it was stored.
C33_EntriesKeyedAndReady ==
    \A id \in QueryIds :
        device_cache[id] # <<>> =>
            /\ device_cache[id][1].device_id = id
            /\ IsReady(device_cache[id][1])

\* C33 happens: both devices have an entry, stored by calls that listed other
\* devices as well.
C33_Witness ==
    /\ \A id \in QueryIds : device_cache[id] # <<>>
    /\ InGdi /\ dpc = "idle" /\ dRet # <<>> /\ ~dRet[1].raised
    /\ Len(dCmds) = 5

\* --------------------------------------------- termination of list_apps
\* a query submitted by list_apps that has not run to its end
InFlight == {t \in DOMAIN fut : fut[t].status \in {"queued", "running"}}

\* the call can only go on when a bridge subprocess ends: the package-list fetch
\* is under way, or nothing is left to do but to wait for a running query
AwaitingBridge ==
    \/ lpc \in {"lp_system", "lp_user"}
    \/ /\ lpc \in {"pool", "draining"}
       /\ Running(fut) # {}
       /\ ~(CanStart(fut) /\ \E t \in DOMAIN fut : fut[t].status = "queued")
       /\ lpc = "pool" => \A t \in DOMAIN fut : fut[t].status # "done"

\* list_apps has returned or raised
ListAppsEnded == ListOpIs("list_apps") /\ lpc = "finished"

\* C34: provided every bridge subprocess returns or times out (the call never
\* waits on one for ever), a list_apps call that was entered ends, by returning
\* or by raising, and when it has ended no query it submitted is queued or
\* running: also when the package-list fetch fails and when the progress
\* callback raises.
C34_EndsWithNothingRunning ==
    /\ [](ListAppsEnded => InFlight = {})
    /\ ([]<>~AwaitingBridge => (ListOpIs("list_apps") ~> ListAppsEnded))

\* C34 happens: the callback raised at the first of three packages while a query
\* was still running; the call raised after the three queries had ended.
C34_Witness ==
    /\ ListAppsEnded /\ CallbackRaised
    /\ Len(pkg_list) = 3 /\ Len(cbLog) = 1
    /\ Cardinality(Yielded) = 1
    /\ \A t \in DOMAIN fut : fut[t].out # <<>>

\* ----------------------------------------------------- _is_system_app
\* the listing the bridge printed names exactly this package on one of its lines
ListedExactly(stdout, package_name) ==
    \E i \in DOMAIN stdout : IsPackageLine(stdout[i]) /\ NameOf(stdout[i]) = package_name

\* C38: _is_system_app answers True only if the filtered system listing has a
\* line that names exactly the package asked for.
C38_SystemOnlyIfListedExactly ==
    (HelperDone("is_system_app") /\ ~lRet[1].raised /\ lRet[1].value = <<TRUE>>) =>
        ListedExactly(lOp[1].answers[1].stdout, lOp[1].package)

\* C38 failing input: asked for com.a, the listing names com.a.b only, and the
\* answer is True.
C38_Witness ==
    /\ HelperDone("is_system_app")
    /\ lOp[1].package = "com.a"
    /\ lOp[1].answers[1].stdout = <<PackageLine("com.a.b")>>
    /\ lRet[1].value = <<TRUE>>

====
